---- MODULE Spec2Model ----
(***************************************************************************)
(* A model of the rule-based order parser                                  *)
(* (src/src/baseline_order_parser.py, src/src/order_schema.py).            *)
(*                                                                         *)
(* Text is a TLA+ string; positions are 1-based, and 0 stands for Python's *)
(* "not found" (-1).  A Python dict is a sequence of <<key, value>> pairs  *)
(* in insertion order.                                                     *)
(***************************************************************************)
EXTENDS Integers, Sequences, FiniteSets, TLC

VARIABLES menu_items, name_to_item, keyword_to_item, restaurant_to_items,
          copy_on_model_validation, catalog_changes, calls, returned, client

vars == <<menu_items, name_to_item, keyword_to_item, restaurant_to_items,
          copy_on_model_validation, catalog_changes, calls, returned, client>>

(***************************************************************************)
(* Strings                                                                 *)
(***************************************************************************)
Ch(s, i) == SubSeq(s, i, i)

\* The characters of a text are those of Latin-1, U+0000 to U+00FF.
\* the characters str.lower() changes, and what it changes them to, place by place
UpperChars == "ABCDEFGHIJKLMNOPQRSTUVWXYZÀÁÂÃÄÅÆÇÈÉÊËÌÍÎÏÐÑÒÓÔÕÖØÙÚÛÜÝÞ"

LowerChars == "abcdefghijklmnopqrstuvwxyzàáâãäåæçèéêëìíîïðñòóôõöøùúûüýþ"

DigitChars == "0123456789"

CharsOf(chars) == {Ch(chars, i) : i \in 1..Len(chars)}

UpperSet == CharsOf(UpperChars)

DigitSet == CharsOf(DigitChars)

\* the letters and numeric characters that str.lower() leaves alone and that are no digit 0-9
OtherWordChars == "ªµºßÿ²³¹¼½¾"

\* the characters of the class \w of a str pattern
WordSet == CharsOf(LowerChars) \cup UpperSet \cup DigitSet \cup {"_"} \cup CharsOf(OtherWordChars)

\* the characters of str.isspace(), which are those of the class \s of a str pattern:
\* \t \n \v \f \r, U+001C to U+001F, the space, U+0085 and U+00A0
SpaceSet == {" ", "\t", "\n", "\r", "\f"} \cup CharsOf(" ")

Min(S) == CHOOSE x \in S : \A y \in S : x <= y

Max(S) == CHOOSE x \in S : \A y \in S : x >= y

\* str.find(sub, start): the first position >= i at which sub occurs, 0 if none
FindFrom(s, sub, i) ==
    LET hits == {p \in i..(Len(s) - Len(sub) + 1) : SubSeq(s, p, p + Len(sub) - 1) = sub}
    IN  IF hits = {} THEN 0 ELSE Min(hits)

Find(s, sub) == FindFrom(s, sub, 1)

\* sub in s
Contains(sub, s) == \E i \in 1..(Len(s) - Len(sub) + 1) : SubSeq(s, i, i + Len(sub) - 1) = sub

IsSpace(c) == c \in SpaceSet

\* the regular expression class \w
IsWordCh(c) == c \in WordSet

LowerCh(c) == IF c \in UpperSet THEN Ch(LowerChars, Find(UpperChars, c)) ELSE c

\* the concatenation of pieces[i] for i = lo..hi: the string a character-wise rewrite gives
RECURSIVE MapChars(_, _, _)
MapChars(pieces, lo, hi) ==
    IF lo > hi THEN ""
    ELSE IF lo = hi THEN pieces[lo]
    ELSE LET mid == (lo + hi) \div 2
         IN  MapChars(pieces, lo, mid) \o MapChars(pieces, mid + 1, hi)

\* str.lower()
Lower(s) == MapChars([i \in 1..Len(s) |-> LowerCh(Ch(s, i))], 1, Len(s))

\* str.strip()
Strip(s) ==
    LET inked == {i \in 1..Len(s) : ~IsSpace(Ch(s, i))}
    IN  IF inked = {} THEN "" ELSE SubSeq(s, Min(inked), Max(inked))

\* s without the white space at its end: what a group that ends with \w keeps of a run of [\w\s]
RStrip(s) ==
    LET inked == {i \in 1..Len(s) : ~IsSpace(Ch(s, i))}
    IN  IF inked = {} THEN "" ELSE SubSeq(s, 1, Max(inked))

\* str.replace(old, new): every non-overlapping occurrence, left to right
RECURSIVE Replace(_, _, _)
Replace(s, old, new) ==
    LET p == Find(s, old)
    IN  IF p = 0 THEN s
        ELSE SubSeq(s, 1, p - 1) \o new \o Replace(SubSeq(s, p + Len(old), Len(s)), old, new)

\* re.sub(r'[,;]', ' ', s)
SubPunct(s) == MapChars([i \in 1..Len(s) |-> IF Ch(s, i) \in {",", ";"} THEN " " ELSE Ch(s, i)], 1, Len(s))

\* re.sub(r'\s+', ' ', s)
SubSpaces(s) ==
    MapChars([i \in 1..Len(s) |-> IF ~IsSpace(Ch(s, i)) THEN Ch(s, i)
                                   ELSE IF i > 1 /\ IsSpace(Ch(s, i - 1)) THEN "" ELSE " "],
             1, Len(s))

\* the k-th smallest element of S
Nth(S, k) == CHOOSE x \in S : Cardinality({y \in S : y < x}) = k - 1

\* str.split(): the maximal runs of non-space characters
Split(s) ==
    LET starts == {i \in 1..Len(s) : ~IsSpace(Ch(s, i)) /\ (i = 1 \/ IsSpace(Ch(s, i - 1)))}
        ends == {i \in 1..Len(s) : ~IsSpace(Ch(s, i)) /\ (i = Len(s) \/ IsSpace(Ch(s, i + 1)))}
    IN  [k \in 1..Cardinality(starts) |-> SubSeq(s, Nth(starts, k), Nth(ends, k))]

\* ' '.join(words)
RECURSIVE Join(_)
Join(words) ==
    IF words = <<>> THEN ""
    ELSE IF Len(words) = 1 THEN words[1]
    ELSE words[1] \o " " \o Join(Tail(words))

\* \b between the characters i - 1 and i of s: one of the two is a word character, the
\* other is not, or there is none
Boundary(s, i) == (i > 1 /\ IsWordCh(Ch(s, i - 1))) # (i <= Len(s) /\ IsWordCh(Ch(s, i)))

\* re.search(r'\b' + re.escape(kw) + r'\b', s)
WordMatch(kw, s) ==
    \E i \in 1..(Len(s) - Len(kw) + 1) :
        /\ SubSeq(s, i, i + Len(kw) - 1) = kw
        /\ Boundary(s, i)
        /\ Boundary(s, i + Len(kw))

(***************************************************************************)
(* Dicts                                                                   *)
(***************************************************************************)
DictHas(d, k) == \E i \in 1..Len(d) : d[i][1] = k

DictGet(d, k) == d[CHOOSE i \in 1..Len(d) : d[i][1] = k][2]

\* d[k] = v: a new key goes last, an old key keeps its place
DictSet(d, k, v) ==
    IF DictHas(d, k)
    THEN [i \in 1..Len(d) |-> IF d[i][1] = k THEN <<k, v>> ELSE d[i]]
    ELSE Append(d, <<k, v>>)

(***************************************************************************)
(* decimal.Decimal                                                         *)
(*                                                                         *)
(* A Decimal is the triple of Decimal.as_tuple(): the sign (1 for a        *)
(* negative number), the digits of the coefficient, most significant       *)
(* first, and the exponent.  An operation of the default context computes  *)
(* the exact result and rounds it to prec significant digits, half to even.*)
(***************************************************************************)
Decimal(digits, exponent) == [sign |-> 0, digits |-> digits, exponent |-> exponent]

\* -d
Negative(d) == [d EXCEPT !.sign = 1 - d.sign]

\* the digits of a natural number below 10^10
IntDigits(n) ==
    LET all == [p \in 1..10 |-> (n \div (10 ^ (10 - p))) % 10]
        significant == {p \in 1..10 : all[p] # 0}
    IN  IF significant = {} THEN <<0>> ELSE SubSeq(all, Min(significant), 10)

\* Decimal(n) of an int
FromInt(n) == Decimal(IntDigits(n), 0)

\* Decimal('d.dd') of a number of cents
Cents(n) == Decimal(IntDigits(n), -2)

\* the digit of 10^i in a coefficient
Dig(digits, i) == IF i < Len(digits) THEN digits[Len(digits) - i] ELSE 0

StripZeros(digits) ==
    LET significant == {p \in 1..Len(digits) : digits[p] # 0}
    IN  IF significant = {} THEN <<0>> ELSE SubSeq(digits, Min(significant), Len(digits))

\* the number whose column of 10^i sums to Column[i], for i < n: the carries are propagated
FromColumns(Column, n) ==
    LET carry[i \in 0..n] == IF i = 0 THEN 0 ELSE (Column[i - 1] + carry[i - 1]) \div 10
    IN  StripZeros([p \in 1..n |-> (Column[n - p] + carry[n - p]) % 10])

AddDigits(a, b) ==
    LET n == (IF Len(a) > Len(b) THEN Len(a) ELSE Len(b)) + 1
    IN  FromColumns([i \in 0..(n - 1) |-> Dig(a, i) + Dig(b, i)], n)

RECURSIVE ColumnProduct(_, _, _, _)
ColumnProduct(a, b, i, j) ==
    IF j < 0 THEN 0 ELSE Dig(a, j) * Dig(b, i - j) + ColumnProduct(a, b, i, j - 1)

MulDigits(a, b) ==
    FromColumns([i \in 0..(Len(a) + Len(b)) |-> ColumnProduct(a, b, i, i)], Len(a) + Len(b) + 1)

\* a - b of coefficients, for a >= b
SubDigits(a, b) == FromColumns([i \in 0..(Len(a) - 1) |-> Dig(a, i) - Dig(b, i)], Len(a))

\* a >= b of coefficients without leading zeros
GreaterEq(a, b) ==
    LET differ == {p \in 1..Len(a) : Len(a) = Len(b) /\ a[p] # b[p]}
    IN  \/ Len(a) > Len(b)
        \/ Len(a) = Len(b) /\ (differ = {} \/ a[Min(differ)] > b[Min(differ)])

Zeros(n) == [p \in 1..n |-> 0]

\* the coefficient of a Decimal at a smaller exponent
Rescale(d, exponent) == StripZeros(d.digits \o Zeros(d.exponent - exponent))

\* getcontext().prec
prec == 28

\* the rounding of the context: ROUND_HALF_EVEN to prec significant digits
Round(d) ==
    IF Len(d.digits) <= prec THEN d
    ELSE LET dropped == Len(d.digits) - prec
             kept == SubSeq(d.digits, 1, prec)
             first == d.digits[prec + 1]
             rest == \E p \in (prec + 2)..Len(d.digits) : d.digits[p] # 0
             up == first > 5 \/ (first = 5 /\ (rest \/ kept[prec] % 2 = 1))
             rounded == IF up THEN AddDigits(kept, <<1>>) ELSE kept
         IN  IF Len(rounded) > prec
             THEN [d EXCEPT !.digits = SubSeq(rounded, 1, prec), !.exponent = d.exponent + dropped + 1]
             ELSE [d EXCEPT !.digits = rounded, !.exponent = d.exponent + dropped]

\* the sum and the product as numbers, with every digit
ExactAdd(x, y) ==
    LET exponent == IF x.exponent < y.exponent THEN x.exponent ELSE y.exponent
        a == Rescale(x, exponent)
        b == Rescale(y, exponent)
    IN  IF x.sign = y.sign THEN [sign |-> x.sign, digits |-> AddDigits(a, b), exponent |-> exponent]
        ELSE IF a = b THEN [sign |-> 0, digits |-> <<0>>, exponent |-> exponent]
        ELSE IF GreaterEq(a, b) THEN [sign |-> x.sign, digits |-> SubDigits(a, b), exponent |-> exponent]
        ELSE [sign |-> y.sign, digits |-> SubDigits(b, a), exponent |-> exponent]

ExactMul(x, y) ==
    [sign |-> (x.sign + y.sign) % 2, digits |-> MulDigits(x.digits, y.digits),
     exponent |-> x.exponent + y.exponent]

\* x + y and x * y of Decimals
DecimalAdd(x, y) == Round(ExactAdd(x, y))

DecimalMul(x, y) == Round(ExactMul(x, y))

\* x == y of Decimals: the same number, whatever the exponents
IsZero(x) == StripZeros(x.digits) = <<0>>

DecimalEq(x, y) ==
    LET exponent == IF x.exponent < y.exponent THEN x.exponent ELSE y.exponent
    IN  /\ Rescale(x, exponent) = Rescale(y, exponent)
        /\ (x.sign = y.sign \/ IsZero(x))

\* x < 0 of a Decimal
IsNegative(x) == x.sign = 1 /\ ~IsZero(x)

(***************************************************************************)
(* Text Normalizer                                                         *)
(***************************************************************************)
typo_fixes ==
    << <<"fires", "fries">>, <<"mcchiken", "mcchicken">>, <<"sprit", "sprite">>,
       <<"burgr", "burger">>, <<"mayo", "mayonnaise">>, <<"w/", "with">>,
       <<"&", "and">>, <<"chk", "chicken">>, <<"bf", "beef">>, <<"pep", "pepperoni">>,
       <<"dq", "dairy queen">>, <<"mcd", "mcdonalds">>, <<"reeses", "reese's">>,
       <<"gp", "garlic parmesan">>, <<"lp", "lemon pepper">>,
       <<"shawerma", "shawarma">>, <<"shwarma", "shawarma">> >>

RECURSIVE ApplyFixes(_, _)
ApplyFixes(s, k) ==
    IF k > Len(typo_fixes) THEN s
    ELSE IF ~Contains(typo_fixes[k][1], s) THEN ApplyFixes(s, k + 1)
    ELSE ApplyFixes(Replace(s, typo_fixes[k][1], typo_fixes[k][2]), k + 1)

\* None, where the other values are names that the code fixes (restaurants, sizes,
\* exceptions, keys of an index) or texts that cannot spell it
None == "<None>"

\* an argument or a result that is a str or None: Some(s) is the str s, Nothing is None
Nothing == <<>>

Some(s) == <<s>>

\* if not text: return ""
preprocess_text(text) ==
    IF text = Nothing \/ text[1] = "" THEN ""
    ELSE SubSpaces(SubPunct(ApplyFixes(Strip(Lower(text[1])), 1)))

(***************************************************************************)
(* Floats: the non-negative doubles, with the rounding of IEEE 754         *)
(***************************************************************************)
\* the bits of the significand of a double
Precision == 53

\* a double is 0, or m[1] = 1 and its value is the sum of m[i] * 2^(e + 1 - i)
FloatZero == [e |-> 0, m |-> Zeros(Precision)]

PadLeft(bits, n) == Zeros(n - Len(bits)) \o bits

\* the carry into bit i of the sum of a and b, two sequences of bits of one length, the
\* first bit the highest: a lower place bears a carry and every place between passes it on
Carry(a, b, i) ==
    \E j \in (i + 1)..Len(a) : a[j] + b[j] = 2 /\ \A k \in (i + 1)..(j - 1) : a[k] + b[k] = 1

\* the sum of two sequences of bits: one bit longer than the longer one
SumBits(a, b) ==
    LET n == IF Len(a) > Len(b) THEN Len(a) ELSE Len(b)
        x == PadLeft(a, n)
        y == PadLeft(b, n)
    IN  [i \in 1..(n + 1) |->
            IF i = 1 THEN (IF Carry(x, y, 0) THEN 1 ELSE 0)
            ELSE (x[i - 1] + y[i - 1] + (IF Carry(x, y, i - 1) THEN 1 ELSE 0)) % 2]

\* the product of two sequences of bits: for every bit of b, twice the sum so far, plus a
RECURSIVE MulBits(_, _, _, _)
MulBits(a, b, i, product) ==
    IF i > Len(b) THEN product
    ELSE MulBits(a, b, i + 1, IF b[i] = 1 THEN SumBits(product \o <<0>>, a) ELSE product \o <<0>>)

\* the bits of a natural number
RECURSIVE IntBits(_)
IntBits(n) == IF n = 0 THEN <<>> ELSE IntBits(n \div 2) \o <<n % 2>>

\* the first k bits after the point of r / d, r < d, and one more bit 1 when there is a rest
RECURSIVE FractionBits(_, _, _)
FractionBits(r, d, k) ==
    IF k = 0 THEN (IF r = 0 THEN <<>> ELSE <<1>>)
    ELSE <<IF 2 * r >= d THEN 1 ELSE 0>> \o FractionBits(IF 2 * r >= d THEN 2 * r - d ELSE 2 * r, d, k - 1)

\* the double nearest to bits * 2^q, the even one of two nearest
RoundBits(bits, q) ==
    LET ones == {i \in 1..Len(bits) : bits[i] = 1}
        b == IF ones = {} THEN <<>> ELSE SubSeq(bits, Min(ones), Len(bits))
        n == Len(b)
        up == b[Precision + 1] = 1 /\ (b[Precision] = 1 \/ \E i \in (Precision + 2)..n : b[i] = 1)
        next == SumBits(SubSeq(b, 1, Precision), <<1>>)
    IN  IF n = 0 THEN FloatZero
        ELSE IF n <= Precision THEN [e |-> q + n - 1, m |-> b \o Zeros(Precision - n)]
        ELSE IF ~up THEN [e |-> q + n - 1, m |-> SubSeq(b, 1, Precision)]
        ELSE IF next[1] = 1 THEN [e |-> q + n, m |-> SubSeq(next, 1, Precision)]
        ELSE [e |-> q + n - 1, m |-> SubSeq(next, 2, Precision + 1)]

\* float(n) of a natural number n
Float(n) == RoundBits(IntBits(n), 0)

\* n / d of a natural number n by a positive number d below 2^10, as floats
TrueDiv(n, d) ==
    LET fraction == FractionBits(n % d, d, 64)
    IN  RoundBits(IntBits(n \div d) \o fraction, -Len(fraction))

\* a + b
FloatAdd(a, b) ==
    IF a = FloatZero THEN b
    ELSE IF b = FloatZero THEN a
    ELSE LET q == (IF a.e < b.e THEN a.e ELSE b.e) - (Precision - 1)
         IN  RoundBits(SumBits(a.m \o Zeros(a.e - (Precision - 1) - q), b.m \o Zeros(b.e - (Precision - 1) - q)), q)

\* a * b
FloatMul(a, b) ==
    IF a = FloatZero \/ b = FloatZero THEN FloatZero
    ELSE LET last == Max({i \in 1..Precision : b.m[i] = 1})
         IN  RoundBits(MulBits(a.m, SubSeq(b.m, 1, last), 1, <<>>), (a.e - (Precision - 1)) + (b.e - (last - 1)))

\* a / 2.0
FloatHalf(a) == IF a = FloatZero THEN a ELSE [a EXCEPT !.e = @ - 1]

\* a < b
FloatLess(a, b) ==
    IF b = FloatZero THEN FALSE
    ELSE IF a = FloatZero THEN TRUE
    ELSE \/ a.e < b.e
         \/ a.e = b.e /\ \E i \in 1..Precision : a.m[i] < b.m[i] /\ \A j \in 1..(i - 1) : a.m[j] = b.m[j]

\* min(a, b)
FloatMin(a, b) == IF FloatLess(b, a) THEN b ELSE a

(***************************************************************************)
(* Restaurant Detector                                                     *)
(***************************************************************************)
restaurant_keywords ==
    <<        <<"McDonald's", <<"mcdonald", "mcchicken", "big mac", "quarter pounder", "mcflurry", "mcnugget", "mcdouble", "filet-o-fish", "happy meal", "mcpick", "mccafe">> >>,
       <<"Starbucks", <<"starbucks", "frappuccino", "macchiato", "americano", "latte", "venti", "grande", "caramel ribbon", "pike place", "blonde roast", "cold brew">> >>,
       <<"Taco Bell", <<"taco bell", "taco", "burrito", "quesadilla", "chalupa", "crunchwrap", "beefy", "nacho", "doritos locos", "mexican pizza", "cantina">> >>,
       <<"KFC", <<"kfc", "colonel", "popcorn chicken", "famous bowl", "zinger", "hot wings", "original recipe", "extra crispy", "chicken bucket">> >>,
       <<"Burger King", <<"burger king", "whopper", "king", "chicken fries", "impossible whopper", "croissanwich", "onion rings", "hershey's pie">> >>,
       <<"Subway", <<"subway", "footlong", "italian bmt", "meatball marinara", "turkey breast", "spicy italian", "veggie delite", "oven roasted">> >>,
       <<"Pizza Hut", <<"pizza hut", "pepperoni pizza", "meat lovers", "supreme pizza", "stuffed crust", "pan pizza", "thin crust", "personal pan">> >>,
       <<"Chick-fil-A", <<"chick-fil-a", "chick fil a", "chicken sandwich", "waffle fries", "nuggets", "spicy deluxe", "original chicken", "polynesian sauce">> >>,
       <<"Wendy's", <<"wendy", "baconator", "frosty", "spicy chicken", "dave's single", "jr bacon cheeseburger", "chicken go wrap">> >>,
       <<"Dairy Queen", <<"dairy queen", "dq", "blizzard", "dilly bar", "hot dog", "chicken strip basket", "oreo blizzard", "brazier burger">> >>,
       <<"Five Guys", <<"five guys", "cajun fries", "bacon cheeseburger", "little cheeseburger", "all the way", "regular fries">> >>,
       <<"Chipotle", <<"chipotle", "burrito bowl", "barbacoa", "carnitas", "sofritas", "guac", "cilantro lime", "pico de gallo">> >>,
       <<"Dunkin'", <<"dunkin", "donut", "iced coffee", "coolatta", "munchkins", "bagel", "boston kreme", "glazed donut">> >>,
       <<"Popeyes", <<"popeyes", "louisiana", "spicy chicken", "biscuit", "red beans", "chicken tender", "cajun fries">> >>,
       <<"Arby's", <<"arby", "roast beef", "curly fries", "beef n cheddar", "turkey gyro", "classic roast beef", "horsey sauce">> >>,
       <<"Sonic", <<"sonic", "cherry limeade", "mozzarella sticks", "corn dog", "slush", "ocean water", "cherry slush">> >>,
       <<"Panda Express", <<"panda express", "orange chicken", "chow mein", "fried rice", "beijing beef", "honey walnut shrimp", "teriyaki chicken">> >>,
       <<"Papa John's", <<"papa john", "garlic sauce", "pepperoni pizza", "the works", "better ingredients", "papa's pizza">> >>,
       <<"Carl's Jr", <<"carl's jr", "famous star", "western bacon", "hand-breaded", "six dollar burger", "crisscut fries">> >>,
       <<"Wingstop", <<"wingstop", "lemon pepper", "garlic parmesan", "atomic wings", "louisiana rub", "boneless wings", "original hot">> >> >>

\* the float 1.5
BoundaryBonus == TrueDiv(3, 2)

\* keyword_score = len(keyword) / 10.0, times 1.5 when the keyword stands at word boundaries
keyword_score(keyword, text_lower) ==
    IF WordMatch(keyword, text_lower)
    THEN FloatMul(TrueDiv(Len(keyword), 10), BoundaryBonus)
    ELSE TrueDiv(Len(keyword), 10)

\* score = 0, and score += keyword_score for every keyword that is in the text, in the order
\* of the keywords
RECURSIVE SumScores(_, _, _)
SumScores(keywords, text_lower, k) ==
    IF k = 0 THEN FloatZero
    ELSE IF Contains(keywords[k], text_lower)
         THEN FloatAdd(SumScores(keywords, text_lower, k - 1), keyword_score(keywords[k], text_lower))
         ELSE SumScores(keywords, text_lower, k - 1)

\* restaurant_scores: the restaurants with a positive score, in table order
RECURSIVE restaurant_scores(_, _)
restaurant_scores(text_lower, r) ==
    IF r > Len(restaurant_keywords) THEN <<>>
    ELSE LET score == SumScores(restaurant_keywords[r][2], text_lower, Len(restaurant_keywords[r][2]))
         IN  (IF FloatLess(FloatZero, score) THEN << <<restaurant_keywords[r][1], score>> >> ELSE <<>>)
             \o restaurant_scores(text_lower, r + 1)

\* the last item with the greatest score
RECURSIVE LastMaxByScore(_, _, _)
LastMaxByScore(scores, k, best) ==
    IF k > Len(scores) THEN best
    ELSE IF ~FloatLess(scores[k][2], best[2]) THEN LastMaxByScore(scores, k + 1, scores[k])
    ELSE LastMaxByScore(scores, k + 1, best)

\* max(items, key=score): the first item with the greatest score
RECURSIVE MaxByScore(_, _, _)
MaxByScore(scores, k, best) ==
    IF k > Len(scores) THEN best
    ELSE IF FloatLess(best[2], scores[k][2]) THEN MaxByScore(scores, k + 1, scores[k])
    ELSE MaxByScore(scores, k + 1, best)

\* (restaurant, confidence); confidence = min(score / 2.0, 1.0)
detect_restaurant(text) ==
    LET scores == restaurant_scores(Lower(text), 1)
    IN  IF scores = <<>> THEN <<None, FloatZero>>
        ELSE LET best == MaxByScore(scores, 2, scores[1])
             IN  <<best[1], FloatMin(FloatHalf(best[2]), Float(1))>>

\* a restaurant is detected, whatever the confidence
Detected(detected) == detected[1] # None

\* the float 0.3
ScopingThreshold == TrueDiv(3, 10)

\* confidence > 0.3
Confident(detected) == detected[1] # None /\ FloatLess(ScopingThreshold, detected[2])

(***************************************************************************)
(* Catalog Index                                                           *)
(***************************************************************************)
\* the last restaurant of the table with a keyword in the name of the item
last_item_restaurant(item) ==
    LET hits == {r \in 1..Len(restaurant_keywords) :
                    \E k \in 1..Len(restaurant_keywords[r][2]) :
                        Contains(restaurant_keywords[r][2][k], Lower(item.name))}
    IN  IF hits = {} THEN "General" ELSE restaurant_keywords[Max(hits)][1]

_identify_item_restaurant(item) ==
    LET name_lower == Lower(item.name)
        hit(r) == \E k \in 1..Len(restaurant_keywords[r][2]) :
                      Contains(restaurant_keywords[r][2][k], name_lower)
    IN  IF \E r \in 1..Len(restaurant_keywords) : hit(r)
        THEN restaurant_keywords[CHOOSE r \in 1..Len(restaurant_keywords) :
                                     hit(r) /\ \A q \in 1..(r - 1) : ~hit(q)][1]
        ELSE "General"

RECURSIVE IndexKeywords(_, _, _)
IndexKeywords(index, item, k) ==
    IF k > Len(item.keywords) THEN index
    ELSE IndexKeywords(DictSet(index, Lower(item.keywords[k]), item), item, k + 1)

RECURSIVE BuildNames(_, _)
BuildNames(items, i) ==
    IF i = 0 THEN <<>> ELSE DictSet(BuildNames(items, i - 1), Lower(items[i].name), items[i])

RECURSIVE BuildKeywords(_, _)
BuildKeywords(items, i) ==
    IF i = 0 THEN <<>> ELSE IndexKeywords(BuildKeywords(items, i - 1), items[i], 1)

RECURSIVE BuildRestaurants(_, _)
BuildRestaurants(items, i) ==
    IF i = 0 THEN <<>>
    ELSE LET index == BuildRestaurants(items, i - 1)
             restaurant == _identify_item_restaurant(items[i])
         IN  DictSet(index, restaurant,
                     Append(IF DictHas(index, restaurant) THEN DictGet(index, restaurant) ELSE <<>>,
                            items[i]))

get_restaurant_menu_items(index, restaurant) ==
    IF DictHas(index, restaurant) THEN DictGet(index, restaurant) ELSE <<>>

(***************************************************************************)
(* Quantity Extractor                                                      *)
(***************************************************************************)
QUANTITY_KEYWORDS ==
    << <<"one", 1>>, <<"two", 2>>, <<"three", 3>>, <<"four", 4>>, <<"five", 5>>,
       <<"six", 6>>, <<"seven", 7>>, <<"eight", 8>>, <<"nine", 9>>, <<"ten", 10>>,
       <<"a", 1>>, <<"an", 1>>, <<"single", 1>>, <<"double", 2>>, <<"triple", 3>> >>

\* characters for which str.isdigit() holds and int() fails
SuperscriptDigits == {"²", "³", "¹"}

\* str.isdigit()
isdigit(word) ==
    word # "" /\ \A i \in 1..Len(word) : Ch(word, i) \in DigitSet \/ Ch(word, i) \in SuperscriptDigits

\* sys.get_int_max_str_digits(): int() refuses a string of more decimal digits
int_max_str_digits == 4300

\* int(word) returns a number (it raises ValueError otherwise)
IntParses(word) ==
    /\ word # "" /\ Len(word) <= int_max_str_digits
    /\ \A i \in 1..Len(word) : Ch(word, i) \in DigitSet

\* int(word)
RECURSIVE int(_)
int(word) ==
    IF word = "" THEN 0
    ELSE 10 * int(SubSeq(word, 1, Len(word) - 1)) + (Find(DigitChars, Ch(word, Len(word))) - 1)

\* the first non-empty keyword of the index that occurs in search_text, whatever its length
FirstKeyword(index, search_text) ==
    LET cands == {k \in 1..Len(index) : index[k][1] # "" /\ Contains(index[k][1], search_text)}
    IN  IF cands = {} THEN None ELSE index[Min(cands)][1]

\* the first of the longest non-empty keywords of the index that occur in search_text, None if none
BestKeyword(index, search_text) ==
    LET cands == {k \in 1..Len(index) : index[k][1] # "" /\ Contains(index[k][1], search_text)}
    IN  IF cands = {} THEN None
        ELSE index[CHOOSE k \in cands : \A j \in cands :
                       \/ Len(index[j][1]) < Len(index[k][1])
                       \/ (Len(index[j][1]) = Len(index[k][1]) /\ j >= k)][1]

\* words[a-1:b] of Python, 1-based and inclusive
Window(words, a, b) == SubSeq(words, a, IF b > Len(words) THEN Len(words) ELSE b)

\* Pattern 1: "number + item"
RECURSIVE QuantityPass(_, _, _, _)
QuantityPass(index, words, i, quantities) ==
    IF i > Len(words) THEN quantities
    ELSE LET word == words[i]
             qty == IF isdigit(word) THEN int(word)
                    ELSE IF DictHas(QUANTITY_KEYWORDS, word) THEN DictGet(QUANTITY_KEYWORDS, word)
                    ELSE 0
             best_match == BestKeyword(index, Lower(Join(Window(words, i + 1, i + 3))))
         IN  IF qty > 0 /\ i < Len(words) /\ best_match # None
             THEN QuantityPass(index, words, i + 1, DictSet(quantities, best_match, qty))
             ELSE QuantityPass(index, words, i + 1, quantities)

context_quantities ==
    << <<"couple", 2>>, <<"pair", 2>>, <<"few", 2>>, <<"some", 1>>, <<"bunch", 3>>,
       <<"several", 3>>, <<"half dozen", 6>>, <<"dozen", 12>> >>

\* Pattern 2: implied quantities
RECURSIVE ContextPass(_, _, _, _)
ContextPass(index, text, c, quantities) ==
    IF c > Len(context_quantities) THEN quantities
    ELSE LET context_pos == Find(text, context_quantities[c][1])
             before_after == SubSeq(text, IF context_pos > 20 THEN context_pos - 20 ELSE 1,
                                    IF context_pos + 49 > Len(text) THEN Len(text) ELSE context_pos + 49)
             free == {k \in 1..Len(index) : /\ Contains(index[k][1], before_after)
                                            /\ ~DictHas(quantities, index[k][1])}
         IN  IF context_pos # 0 /\ free # {}
             THEN ContextPass(index, text, c + 1,
                              DictSet(quantities, index[Min(free)][1], context_quantities[c][2]))
             ELSE ContextPass(index, text, c + 1, quantities)

\* extract_quantities raises ValueError: a word passes isdigit() and int() rejects it
extract_quantities_raises(text) == \E i \in 1..Len(Split(text)) : isdigit(Split(text)[i]) /\ ~IntParses(Split(text)[i])

extract_quantities(index, text) == ContextPass(index, text, 1, QuantityPass(index, Split(text), 1, <<>>))

(***************************************************************************)
(* Size Extractor                                                          *)
(***************************************************************************)
size_patterns ==
    << <<"small", "Small">>, <<"sm", "Small">>, <<"mini", "Small">>,
       <<"medium", "Medium">>, <<"med", "Medium">>, <<"m", "Medium">>, <<"regular", "Medium">>,
       <<"large", "Large">>, <<"lg", "Large">>, <<"l", "Large">>, <<"big", "Large">>,
       <<"extra large", "Extra Large">>, <<"xl", "Extra Large">>, <<"jumbo", "Extra Large">>,
       <<"huge", "Extra Large">>, <<"super", "Extra Large">> >>

InSeq(x, seq) == \E i \in 1..Len(seq) : seq[i] = x

\* the entries of the keyword index whose item offers the size
OfferingSize(index, size) == SelectSeq(index, LAMBDA e : InSeq(size, e[2].available_sizes))

SizeAt(words, i) ==
    LET two_word == IF i < Len(words) THEN words[i] \o " " \o words[i + 1] ELSE None
    IN  IF DictHas(size_patterns, two_word) THEN DictGet(size_patterns, two_word)
        ELSE IF DictHas(size_patterns, words[i]) THEN DictGet(size_patterns, words[i])
        ELSE None

RECURSIVE SizePass(_, _, _, _)
SizePass(index, words, i, sizes) ==
    IF i > Len(words) THEN sizes
    ELSE LET size_found == SizeAt(words, i)
             offering == OfferingSize(index, size_found)
             ahead == BestKeyword(offering, Lower(Join(Window(words, i + 1, i + 3))))
             behind == BestKeyword(offering, Lower(Join(SubSeq(words, IF i > 3 THEN i - 3 ELSE 1, i - 1))))
         IN  IF size_found = None THEN SizePass(index, words, i + 1, sizes)
             ELSE IF ahead # None THEN SizePass(index, words, i + 1, DictSet(sizes, ahead, size_found))
             ELSE IF behind # None THEN SizePass(index, words, i + 1, DictSet(sizes, behind, size_found))
             ELSE SizePass(index, words, i + 1, sizes)

extract_sizes(index, text) == SizePass(index, Split(text), 1, <<>>)

(***************************************************************************)
(* Modification Extractor                                                  *)
(*                                                                         *)
(* `modifications` is the list modifications['all'] (the only key the      *)
(* code uses); the empty list stands for the dict without that key.        *)
(* Every pattern is compiled with re.IGNORECASE; a match is a record       *)
(* [ok, group, end] with end the position of the last character consumed.  *)
(***************************************************************************)
NoMatch == [ok |-> FALSE, group |-> "", end |-> 0]

Match(g, e) == [ok |-> TRUE, group |-> g, end |-> e]

\* the first position >= j that holds no white space (Len + 1 if none)
SkipSpaces(text, j) == Min({n \in j..(Len(text) + 1) : n > Len(text) \/ ~IsSpace(Ch(text, n))})

\* the end of the longest run that starts at a and holds no position of NotInClass
RunEnd(NotInClass, text, a) == Min({j \in a..Len(text) : j = Len(text) \/ (j + 1) \in NotInClass})

\* the end of \w+ matched greedily from a
WordRunEnd(text, a) == RunEnd({n \in (a + 1)..Len(text) : ~IsWordCh(Ch(text, n))}, text, a)

IsPhraseCh(c) == IsWordCh(c) \/ IsSpace(c)

\* the end of [\w\s]+ matched greedily from a
PhraseRunEnd(text, a) == RunEnd({n \in (a + 1)..Len(text) : ~IsPhraseCh(Ch(text, n))}, text, a)

IsListCh(c) == IsPhraseCh(c) \/ c = ","

\* the end of [\w\s,]+ matched greedily from a
ListRunEnd(text, a) == RunEnd({n \in (a + 1)..Len(text) : ~IsListCh(Ch(text, n))}, text, a)

\* the literal w at n, ignoring case
LiteralAt(text, n, w) == n >= 1 /\ n + Len(w) - 1 <= Len(text) /\ Lower(SubSeq(text, n, n + Len(w) - 1)) = w

\* \bkw\s at i
KeywordAt(text, i, kw) ==
    /\ LiteralAt(text, i, kw)
    /\ ~(i > 1 /\ IsWordCh(Ch(text, i - 1)))
    /\ i + Len(kw) <= Len(text) /\ IsSpace(Ch(text, i + Len(kw)))

\* \bkw\s+(\w+)
MatchWord(text, i, kw) ==
    IF ~KeywordAt(text, i, kw) THEN NoMatch
    ELSE LET a == SkipSpaces(text, i + Len(kw))
         IN  IF a <= Len(text) /\ IsWordCh(Ch(text, a))
             THEN Match(SubSeq(text, a, WordRunEnd(text, a)), WordRunEnd(text, a))
             ELSE NoMatch

\* \bkw\s+(?:the\s+)?(\w+)
MatchWordOptThe(text, i, kw) ==
    LET plain == MatchWord(text, i, kw)
        a == SkipSpaces(text, i + Len(kw))
        after == MatchWord(text, a, "the")
    IN  IF plain.ok /\ Lower(plain.group) = "the" /\ after.ok THEN after ELSE plain

\* (?=\s+(?:stop|...|\d|$)) at j
LookAhead(text, j, stops) ==
    /\ j <= Len(text) /\ IsSpace(Ch(text, j))
    /\ LET n == SkipSpaces(text, j)
       IN  \/ n > Len(text)
           \/ Ch(text, n) \in DigitSet
           \/ \E k \in 1..Len(stops) : LiteralAt(text, n, stops[k])

\* the ends of ([\w\s]+?)(?=\s+(?:stop|...|\d|$)) for a group that starts at s
LazyEnds(text, s, stops) ==
    IF s <= Len(text) /\ IsPhraseCh(Ch(text, s))
    THEN {e \in s..PhraseRunEnd(text, s) : LookAhead(text, e + 1, stops)}
    ELSE {}

\* \bkw\s+([\w\s]+?)(?=\s+(?:stop|...|\d|$)): the greedy \s+ takes the whole run of white space
\* and gives it back one character at a time while the group finds no end; the lazy group
\* takes its first end
MatchLazy(text, i, kw, stops) ==
    IF ~KeywordAt(text, i, kw) THEN NoMatch
    ELSE LET starts == {s \in (i + Len(kw) + 1)..SkipSpaces(text, i + Len(kw)) :
                           LazyEnds(text, s, stops) # {}}
         IN  IF starts = {} THEN NoMatch
             ELSE Match(SubSeq(text, Max(starts), Min(LazyEnds(text, Max(starts), stops))),
                        Min(LazyEnds(text, Max(starts), stops)))

\* \bkw\s+([\w\s]+)$: the group starts after the run of white space; when the run reaches
\* the end of the text, \s+ gives its last character to the group
MatchToEnd(text, i, kw) ==
    IF ~KeywordAt(text, i, kw) THEN NoMatch
    ELSE LET a == SkipSpaces(text, i + Len(kw))
         IN  IF a <= Len(text)
             THEN (IF IsWordCh(Ch(text, a)) /\ PhraseRunEnd(text, a) = Len(text)
                   THEN Match(SubSeq(text, a, Len(text)), Len(text))
                   ELSE NoMatch)
             ELSE IF a > i + Len(kw) + 1 THEN Match(SubSeq(text, Len(text), Len(text)), Len(text))
             ELSE NoMatch

\* \s+on\s+the\s+side at q: the position of its last character, 0 if it does not match
OnTheSideEnd(text, q) ==
    IF ~(q <= Len(text) /\ IsSpace(Ch(text, q))) THEN 0
    ELSE LET n1 == SkipSpaces(text, q)
             n2 == SkipSpaces(text, n1 + 2)
             n3 == SkipSpaces(text, n2 + 3)
         IN  IF /\ LiteralAt(text, n1, "on") /\ n2 > n1 + 2
                /\ LiteralAt(text, n2, "the") /\ n3 > n2 + 3
                /\ LiteralAt(text, n3, "side")
             THEN n3 + 3 ELSE 0

\* ([\w\s,]+?)\s+on\s+the\s+side
MatchOnTheSide(text, i) ==
    IF ~IsListCh(Ch(text, i)) THEN NoMatch
    ELSE LET qs == {q \in (i + 1)..(ListRunEnd(text, i) + 1) : OnTheSideEnd(text, q) # 0}
         IN  IF qs = {} THEN NoMatch
             ELSE LET q == CHOOSE x \in qs : \A y \in qs : x <= y
                  IN  Match(SubSeq(text, i, q - 1), OnTheSideEnd(text, q))

\* \bside\s+of\s+([\w\s]+): the group starts after the run of white space that follows "of";
\* when no word character follows the run, \s+ gives its last character to the group
MatchSideOf(text, i) ==
    IF ~KeywordAt(text, i, "side") THEN NoMatch
    ELSE LET n == SkipSpaces(text, i + 4)
             a == SkipSpaces(text, n + 2)
         IN  IF ~(LiteralAt(text, n, "of") /\ n + 2 <= Len(text) /\ IsSpace(Ch(text, n + 2))) THEN NoMatch
             ELSE IF a <= Len(text) /\ IsWordCh(Ch(text, a))
             THEN Match(SubSeq(text, a, PhraseRunEnd(text, a)), PhraseRunEnd(text, a))
             ELSE IF a > n + 3 THEN Match(SubSeq(text, a - 1, a - 1), a - 1)
             ELSE NoMatch

SizeStops == <<"large", "medium", "small", "and">>

ModifierStops == <<"large", "medium", "small", "extra", "no", "and">>

modification_patterns ==
    << [kind |-> "word", kw |-> "no", type |-> "remove"],
       [kind |-> "word", kw |-> "extra", type |-> "extra"],
       [kind |-> "lazy", kw |-> "with", type |-> "add", stops |-> SizeStops],
       [kind |-> "toend", kw |-> "with", type |-> "add"],
       [kind |-> "lazy", kw |-> "add", type |-> "add", stops |-> ModifierStops],
       [kind |-> "lazy", kw |-> "include", type |-> "add", stops |-> ModifierStops],
       [kind |-> "word", kw |-> "without", type |-> "remove"],
       [kind |-> "optthe", kw |-> "hold", type |-> "remove"],
       [kind |-> "optthe", kw |-> "skip", type |-> "remove"],
       [kind |-> "onside", kw |-> "", type |-> "on_side"],
       [kind |-> "sideof", kw |-> "side", type |-> "on_side"] >>

MatchAt(p, text, i) ==
    CASE p.kind = "word" -> MatchWord(text, i, p.kw)
      [] p.kind = "optthe" -> MatchWordOptThe(text, i, p.kw)
      [] p.kind = "lazy" -> MatchLazy(text, i, p.kw, p.stops)
      [] p.kind = "toend" -> MatchToEnd(text, i, p.kw)
      [] p.kind = "onside" -> MatchOnTheSide(text, i)
      [] p.kind = "sideof" -> MatchSideOf(text, i)

\* re.finditer(pattern, text): the groups of the non-overlapping matches, left to right
RECURSIVE finditer(_, _, _)
finditer(p, text, i) ==
    LET starts == {j \in i..Len(text) : MatchAt(p, text, j).ok}
    IN  IF starts = {} THEN <<>>
        ELSE LET m == MatchAt(p, text, Min(starts))
             IN  <<m.group>> \o finditer(p, text, m.end + 1)

Modification(mod_type, mod_item) ==
    [type |-> mod_type, item |-> mod_item, description |-> mod_type \o " " \o mod_item,
     price_change |-> Cents(0)]

_add_modification(mod_item, mod_type, modifications) ==
    LET cleaned == Strip(Replace(Replace(Replace(mod_item, "the ", ""), "some ", ""), "a ", ""))
    IN  IF Len(cleaned) > 1 /\ ~\E k \in 1..Len(modifications) : Lower(modifications[k].item) = Lower(cleaned)
        THEN Append(modifications, Modification(mod_type, cleaned))
        ELSE modifications

RECURSIVE AddAll(_, _, _, _)
AddAll(groups, k, mod_type, modifications) ==
    IF k > Len(groups) THEN modifications
    ELSE LET added == IF Strip(groups[k]) = "" THEN modifications
                      ELSE _add_modification(Strip(groups[k]), mod_type, modifications)
         IN  IF added = modifications THEN AddAll(groups, k + 1, mod_type, modifications)
             ELSE AddAll(groups, k + 1, mod_type, added)

\* the second pass: every pattern in order, every match of it left to right
RECURSIVE StandardPass(_, _, _)
StandardPass(text, k, modifications) ==
    IF k > Len(modification_patterns) THEN modifications
    ELSE LET added == AddAll(finditer(modification_patterns[k], text, 1), 1,
                             modification_patterns[k].type, modifications)
         IN  IF added = modifications THEN StandardPass(text, k + 1, modifications)
             ELSE StandardPass(text, k + 1, added)

\* \s+kw\s+ at q (case matters): the position after it, 0 if it does not match
SeparatorEnd(s, kw, q) ==
    LET n == SkipSpaces(s, q)
        m == SkipSpaces(s, n + Len(kw))
    IN  IF /\ IsSpace(Ch(s, q)) /\ n + Len(kw) - 1 <= Len(s)
           /\ SubSeq(s, n, n + Len(kw) - 1) = kw /\ m > n + Len(kw)
        THEN m ELSE 0

\* re.split(r'\s+kw\s+', s)
RECURSIVE SplitOnWord(_, _)
SplitOnWord(s, kw) ==
    LET seps == {q \in 1..Len(s) : SeparatorEnd(s, kw, q) # 0}
    IN  IF seps = {} THEN <<s>>
        ELSE <<SubSeq(s, 1, Min(seps) - 1)>>
                 \o SplitOnWord(SubSeq(s, SeparatorEnd(s, kw, Min(seps)), Len(s)), kw)

\* \bkw\s+(\w+(?:\s+\w+)*)\s+kw\s+((?:\w+(?:\s+\w+)*(?:\s+kw\s+\w+(?:\s+\w+)*)*)+) at i:
\* group 1 is greedy, so it ends before the last "kw" of the run of words that a word follows;
\* the record holds group 1 as group and group 2 as rest
MatchSequential(text, i, kw) ==
    IF ~KeywordAt(text, i, kw) THEN [ok |-> FALSE, group |-> "", rest |-> "", end |-> 0]
    ELSE LET a == SkipSpaces(text, i + Len(kw))
             next(e) == SkipSpaces(text, e + 1)
             second(e) == SkipSpaces(text, next(e) + Len(kw))
             ends == IF a <= Len(text) /\ IsWordCh(Ch(text, a))
                     THEN {e \in a..PhraseRunEnd(text, a) :
                             /\ IsWordCh(Ch(text, e)) /\ e < Len(text) /\ IsSpace(Ch(text, e + 1))
                             /\ LiteralAt(text, next(e), kw)
                             /\ second(e) > next(e) + Len(kw)
                             /\ second(e) <= Len(text) /\ IsWordCh(Ch(text, second(e)))}
                     ELSE {}
         IN  IF ends = {} THEN [ok |-> FALSE, group |-> "", rest |-> "", end |-> 0]
             ELSE LET e == CHOOSE x \in ends : \A y \in ends : x >= y
                      rest == RStrip(SubSeq(text, second(e), PhraseRunEnd(text, second(e))))
                  IN  [ok |-> TRUE, group |-> SubSeq(text, a, e), rest |-> rest,
                       end |-> second(e) + Len(rest) - 1]

RECURSIVE AddItems(_, _, _, _)
AddItems(items, k, mod_type, modifications) ==
    IF k > Len(items) THEN modifications
    ELSE LET added == IF Len(Strip(items[k])) > 1
                      THEN _add_modification(Strip(items[k]), mod_type, modifications)
                      ELSE modifications
         IN  IF added = modifications THEN AddItems(items, k + 1, mod_type, modifications)
             ELSE AddItems(items, k + 1, mod_type, added)

\* every match of the sequential pattern of kw, left to right
RECURSIVE SequentialMatches(_, _, _, _, _)
SequentialMatches(text, i, kw, mod_type, modifications) ==
    LET starts == {j \in i..Len(text) : MatchSequential(text, j, kw).ok}
    IN  IF starts = {} THEN modifications
        ELSE LET m == MatchSequential(text, Min(starts), kw)
                 added == AddItems(SplitOnWord(m.rest, kw), 1, mod_type,
                                   _add_modification(Strip(m.group), mod_type, modifications))
             IN  IF added = modifications
                 THEN SequentialMatches(text, m.end + 1, kw, mod_type, modifications)
                 ELSE SequentialMatches(text, m.end + 1, kw, mod_type, added)

_extract_sequential_modifications(text, modifications) ==
    SequentialMatches(text, 1, "extra", "extra", SequentialMatches(text, 1, "no", "remove", modifications))

common_condiments ==
    <<"mayo", "mayonnaise", "ketchup", "mustard", "ranch", "bbq sauce", "hot sauce",
      "tahini", "garlic sauce", "honey mustard", "blue cheese", "marinara",
      "special sauce", "buffalo sauce">>

RECURSIVE Condiments(_, _, _)
Condiments(text, k, modifications) ==
    IF k > Len(common_condiments) THEN modifications
    ELSE IF /\ Contains(common_condiments[k], text)
            /\ ~\E j \in 1..Len(modifications) : Contains(common_condiments[k], modifications[j].item)
         THEN Condiments(text, k + 1, Append(modifications, Modification("add", common_condiments[k])))
         ELSE Condiments(text, k + 1, modifications)

_extract_standalone_condiments(text, modifications) == Condiments(text, 1, modifications)

\* the three passes, from the dict the call starts with
extract_modifications_into(text, modifications) ==
    _extract_standalone_condiments(text,
        StandardPass(text, 1, _extract_sequential_modifications(text, modifications)))

\* a dict kept between calls: the list of a call that has extracted one
leaked_modifications ==
    LET holders == {c \in DOMAIN calls : calls[c].modifications # <<>>}
    IN  IF holders = {} THEN <<>> ELSE calls[Min(holders)].modifications

\* modifications = {}
new_modifications == <<>>

\* a call that runs alone starts from the empty dict
extract_modifications(text) == extract_modifications_into(text, <<>>)

(***************************************************************************)
(* Item Matcher                                                            *)
(***************************************************************************)
RECURSIVE SearchKeywords(_, _)
SearchKeywords(items, i) == IF i = 0 THEN <<>> ELSE IndexKeywords(SearchKeywords(items, i - 1), items[i], 1)

Found(item, found_items) == \E k \in 1..Len(found_items) : found_items[k][1] = item

\* First pass: multi-word keywords, confidence 0.95
RECURSIVE MultiWordPass(_, _, _, _)
MultiWordPass(search_keywords, text, k, found_items) ==
    IF k > Len(search_keywords) THEN found_items
    ELSE IF /\ Len(Split(search_keywords[k][1])) > 1
            /\ Contains(search_keywords[k][1], text)
            /\ ~Found(search_keywords[k][2], found_items)
         THEN MultiWordPass(search_keywords, text, k + 1,
                            Append(found_items, <<search_keywords[k][2], 95>>))
         ELSE MultiWordPass(search_keywords, text, k + 1, found_items)

\* Second pass: single-word keywords at a word boundary, confidence 0.9
RECURSIVE SingleWordPass(_, _, _, _)
SingleWordPass(search_keywords, text, k, found_items) ==
    IF k > Len(search_keywords) THEN found_items
    ELSE IF /\ Len(Split(search_keywords[k][1])) = 1
            /\ WordMatch(search_keywords[k][1], text)
            /\ ~Found(search_keywords[k][2], found_items)
         THEN SingleWordPass(search_keywords, text, k + 1,
                             Append(found_items, <<search_keywords[k][2], 90>>))
         ELSE SingleWordPass(search_keywords, text, k + 1, found_items)

Partial(word, keyword) ==
    /\ Len(word) >= 4 /\ Len(keyword) >= 4
    /\ \/ (Contains(word, keyword) /\ 10 * Len(word) >= 6 * Len(keyword))
       \/ (Contains(keyword, word) /\ 10 * Len(keyword) >= 6 * Len(word))

\* Third pass: partial matches, confidence 0.6
RECURSIVE PartialPass(_, _, _, _)
PartialPass(search_keywords, words, k, found_items) ==
    IF k > Len(search_keywords) THEN found_items
    ELSE IF /\ ~Found(search_keywords[k][2], found_items)
            /\ \E w \in 1..Len(words) : Partial(words[w], search_keywords[k][1])
         THEN PartialPass(search_keywords, words, k + 1,
                          Append(found_items, <<search_keywords[k][2], 60>>))
         ELSE PartialPass(search_keywords, words, k + 1, found_items)

\* unique_items: one entry per item name, the highest confidence, in first-seen order
RECURSIVE UniqueItems(_, _)
UniqueItems(found_items, k) ==
    IF k = 0 THEN <<>>
    ELSE LET unique == UniqueItems(found_items, k - 1)
             key == found_items[k][1].name
         IN  IF ~DictHas(unique, key) \/ found_items[k][2] > DictGet(unique, key)[2]
             THEN DictSet(unique, key, found_items[k])
             ELSE unique

\* list.sort(key=confidence, reverse=True): stable
SortByConfidence(result) ==
    SelectSeq(result, LAMBDA r : r[2] = 95) \o SelectSeq(result, LAMBDA r : r[2] = 90)
        \o SelectSeq(result, LAMBDA r : r[2] = 60)

\* a search that ignores the restaurant
every_item(scoped, restaurant_items, all_items) == all_items

\* scoped: restaurant_items is not None
search_items(scoped, restaurant_items, all_items) == IF scoped THEN restaurant_items ELSE all_items

\* a matcher whose third pass runs whatever the first two found and whatever the scope
find_with_partial(text, scoped, restaurant_items, all_items) ==
    LET items == search_items(scoped, restaurant_items, all_items)
        search_keywords == SearchKeywords(items, Len(items))
        exact == SingleWordPass(search_keywords, text, 1, MultiWordPass(search_keywords, text, 1, <<>>))
        found_items == PartialPass(search_keywords, Split(text), 1, exact)
        unique == UniqueItems(found_items, Len(found_items))
    IN  SortByConfidence([k \in 1..Len(unique) |-> unique[k][2]])

find_menu_items(text, scoped, restaurant_items, all_items) ==
    LET items == search_items(scoped, restaurant_items, all_items)
        search_keywords == SearchKeywords(items, Len(items))
        exact == SingleWordPass(search_keywords, text, 1, MultiWordPass(search_keywords, text, 1, <<>>))
        found_items == IF exact = <<>> /\ ~scoped
                       THEN PartialPass(search_keywords, Split(text), 1, exact)
                       ELSE exact
        unique == UniqueItems(found_items, Len(found_items))
    IN  SortByConfidence([k \in 1..Len(unique) |-> unique[k][2]])

(***************************************************************************)
(* Order and OrderItem                                                     *)
(***************************************************************************)
\* sum(mod.price_change for mod in modifications): from the int 0, left to right
RECURSIVE SumPrices(_, _)
SumPrices(modifications, n) ==
    IF n = 0 THEN FromInt(0)
    ELSE DecimalAdd(SumPrices(modifications, n - 1), modifications[n].price_change)

\* OrderItem.total_price
total_price(item) ==
    DecimalMul(DecimalAdd(item.base_price, SumPrices(item.modifications, Len(item.modifications))),
               FromInt(item.quantity))

\* sum(item.total_price for item in items)
RECURSIVE SumTotals(_, _)
SumTotals(items, n) ==
    IF n = 0 THEN FromInt(0) ELSE DecimalAdd(SumTotals(items, n - 1), total_price(items[n]))

\* Order.subtotal
subtotal(order) == SumTotals(order.items, Len(order.items))

\* a rate of 80%
other_tax_rate == Decimal(<<8>>, -1)

\* Decimal('0.08')
tax_rate == Decimal(<<8>>, -2)

\* Order.tax_amount
tax_amount(order) == DecimalMul(subtotal(order), tax_rate)

\* Order.total_amount
total_amount(order) == DecimalAdd(subtotal(order), tax_amount(order))

RECURSIVE SumQuantities(_)
SumQuantities(items) == IF items = <<>> THEN 0 ELSE Head(items).quantity + SumQuantities(Tail(items))

\* Order.item_count
item_count(order) == SumQuantities(order.items)

(***************************************************************************)
(* Order assembly (parse_order)                                            *)
(***************************************************************************)
\* for keyword in menu_item.keywords: if keyword in d: value = d[keyword]; break
FirstKeyed(keywords, d, default) ==
    LET hits == {k \in 1..Len(keywords) : DictHas(d, keywords[k])}
    IN  IF hits = {} THEN default ELSE DictGet(d, keywords[Min(hits)])

\* a line that takes the quantity of the last of the item's keywords that the map holds
last_quantity(menu_item, quantities) ==
    LET hits == {k \in 1..Len(menu_item.keywords) : DictHas(quantities, menu_item.keywords[k])}
    IN  IF hits = {} THEN 1 ELSE DictGet(quantities, menu_item.keywords[Max(hits)])

line_quantity(menu_item, quantities) == FirstKeyed(menu_item.keywords, quantities, 1)

line_size(menu_item, sizes) == FirstKeyed(menu_item.keywords, sizes, None)

\* base_price += menu_item.size_pricing.get(size_key, Decimal('0.00')), when there is a size
line_base_price(menu_item, size) ==
    IF size = None THEN menu_item.base_price
    ELSE DecimalAdd(menu_item.base_price,
                    IF DictHas(menu_item.size_pricing, size)
                    THEN DictGet(menu_item.size_pricing, size) ELSE Cents(0))

\* mod.item.lower() in [m.lower() for m in menu_item.available_modifications]
is_valid_modification(menu_item, mod) ==
    \E k \in 1..Len(menu_item.available_modifications) :
        Lower(menu_item.available_modifications[k]) = Lower(mod.item)

\* menu_item.modification_pricing.get(mod.item.lower(), Decimal('0.00'))
modification_price(menu_item, mod) ==
    IF DictHas(menu_item.modification_pricing, Lower(mod.item))
    THEN DictGet(menu_item.modification_pricing, Lower(mod.item)) ELSE Cents(0)

\* a filter that keeps every modification
all_modifications(menu_item, item_modifications) == 1..Len(item_modifications)

\* the positions of item_modifications that the filter keeps for the item
valid_modifications(menu_item, item_modifications) ==
    {j \in 1..Len(item_modifications) : is_valid_modification(menu_item, item_modifications[j])}

\* The price_change seen on line i for the modification object j once every line is built.
\* Each Modification is one object for the whole call, and every item that accepts it
\* overwrites its price_change.  An OrderItem that copies the models it is given keeps the
\* price its own item wrote; one that keeps the references sees the last write.
price_seen(found_items, item_modifications, i, j, copies) ==
    LET writers == {w \in 1..Len(found_items) : j \in valid_modifications(found_items[w][1], item_modifications)}
        writer == IF copies THEN i ELSE Max(writers)
    IN  modification_price(found_items[writer][1], item_modifications[j])

order_item(found_items, i, quantities, sizes, item_modifications, copies) ==
    LET menu_item == found_items[i][1]
        size == line_size(menu_item, sizes)
        valid == valid_modifications(menu_item, item_modifications)
    IN  [name |-> menu_item.name,
         quantity |-> line_quantity(menu_item, quantities),
         size |-> size,
         base_price |-> line_base_price(menu_item, size),
         modifications |->
             [k \in 1..Cardinality(valid) |->
                 [item_modifications[Nth(valid, k)] EXCEPT
                     !.price_change = price_seen(found_items, item_modifications, i, Nth(valid, k), copies)]]]

order_items(found_items, quantities, sizes, item_modifications, copies) ==
    [i \in 1..Len(found_items) |-> order_item(found_items, i, quantities, sizes, item_modifications, copies)]

\* len(text) raises TypeError: text is None
notes_raise(text) == text = Nothing

customer_notes(text, detected_restaurant) ==
    LET long_text == IF Len(text[1]) > 100 THEN text[1] ELSE None
    IN  IF detected_restaurant = None THEN long_text
        ELSE IF long_text = None THEN "Restaurant: " \o detected_restaurant
        ELSE "Restaurant: " \o detected_restaurant \o "\n" \o long_text

EmptyOrder == [items |-> <<>>, customer_notes |-> None]

\* parse_order run alone, from the indexes of the parser: what it raises (None if nothing)
\* and the Order it returns
parse_order(all_items, keyword_index, restaurant_index, copies, text) ==
    LET clean_text == preprocess_text(text)
        detected == detect_restaurant(clean_text)
        scoped == Confident(detected)
        restaurant_items == IF scoped THEN get_restaurant_menu_items(restaurant_index, detected[1]) ELSE <<>>
        found_items == find_menu_items(clean_text, scoped, restaurant_items, all_items)
    IN  IF extract_quantities_raises(clean_text) THEN [raised |-> "ValueError", order |-> EmptyOrder]
        ELSE IF notes_raise(text) THEN [raised |-> "TypeError", order |-> EmptyOrder]
        ELSE [raised |-> None,
              order |-> [items |-> order_items(found_items, extract_quantities(keyword_index, clean_text),
                                               extract_sizes(keyword_index, clean_text),
                                               extract_modifications(clean_text), copies),
                         customer_notes |-> customer_notes(text, detected[1])]]

(***************************************************************************)
(* The parser and its calls                                                *)
(***************************************************************************)
MenuItemTemplate(name, base_price, available_sizes, size_pricing, available_modifications, modification_pricing, keywords) ==
    [name |-> name, base_price |-> base_price, available_sizes |-> available_sizes,
     size_pricing |-> size_pricing, available_modifications |-> available_modifications,
     modification_pricing |-> modification_pricing, keywords |-> keywords]

Threes == [p \in 1..prec |-> 3]

\* the catalog the parser is constructed with
Menu ==
    << MenuItemTemplate("McChicken", Cents(400), <<>>, <<>>, <<"Mayo", "ketchup">>, <<>>, <<"mcchicken">>),
       MenuItemTemplate("Big Mac", Cents(500), <<>>, <<>>, <<"Pickles", "cheese">>,
                        << <<"cheese", Cents(50)>> >>, <<"big mac">>),
       MenuItemTemplate("Fries", Cents(200), <<"Large">>, << <<"Large", Cents(100)>> >>,
                        <<"ketchup", "salt", "cheese">>, << <<"cheese", Cents(75)>> >>, <<"fries">>),
       MenuItemTemplate("Sprite", Cents(150), <<"Medium">>, << <<"Medium", Cents(50)>> >>, <<>>, <<>>,
                        <<"sprite">>),
       MenuItemTemplate("Cheese Sticks", Cents(300), <<>>, <<>>, <<"cheese", "ranch">>,
                        << <<"cheese", Cents(25)>> >>, <<"cheese sticks">>),
       \* Decimal(10) / Decimal(3), the price of one cookie of a pack of three
       MenuItemTemplate("Cookie", Decimal(Threes, -27), <<>>, <<>>, <<>>, <<>>, <<"cookie">>) >>

Scenario1 == "craving a mcchicken with large fries and medium sprite, mayo and ketchup included"

Scenario2 == "I want two big macs with extra cheese and a large coke"

Scenario3 == "big mac no pickles with large fries extra salt"

Scenario4 == "asdkfjasdf"

Scenario5 == "no pickles no lettuce no onions"

\* the texts a caller passes to parse_order, and None
Texts ==
    {Some(text) : text \in {Scenario1, Scenario2, Scenario3, Scenario4, Scenario5, "", "² fries", "²",
                            "3 Fries, extra Salt", "two fries and cheese sticks with extra cheese", "mayo",
                            "two cookies", "7 cookies"}} \cup {Nothing}

\* a catalog with two items of one name
DuplicateMenu ==
    << MenuItemTemplate("Fries", Cents(200), <<>>, <<>>, <<>>, <<>>, <<"fries">>),
       MenuItemTemplate("Fries", Cents(900), <<>>, <<>>, <<>>, <<>>, <<"chips">>) >>

\* a catalog with an item of a negative price
NegativeMenu ==
    << MenuItemTemplate("Fries", Negative(Cents(200)), <<>>, <<>>, <<>>, <<>>, <<"fries">>),
       MenuItemTemplate("Cookie", Cents(100), <<>>, <<>>, <<>>, <<>>, <<"cookie">>) >>

\* a catalog with two items that share a keyword, one of them without sizes, and an item
\* that offers Large and Extra Large
SizesMenu ==
    << MenuItemTemplate("Milkshake", Cents(300), <<>>, <<>>, <<>>, <<>>, <<"milkshake", "shake">>),
       MenuItemTemplate("Protein Shake", Cents(400), <<"Large">>, << <<"Large", Cents(100)>> >>, <<>>, <<>>,
                        <<"protein shake", "shake">>),
       MenuItemTemplate("Soda", Cents(100), <<"Large", "Extra Large">>,
                        << <<"Large", Cents(50)>>, <<"Extra Large", Cents(100)>> >>, <<>>, <<>>, <<"soda">>) >>

\* a catalog with two items that share a multi-word keyword
CollisionMenu ==
    << MenuItemTemplate("Lunch Special", Cents(500), <<>>, <<>>, <<>>, <<>>, <<"veggie wrap", "special">>),
       MenuItemTemplate("Veggie Wrap", Cents(400), <<>>, <<>>, <<>>, <<>>, <<"veggie wrap", "wrap">>) >>

\* a catalog with items whose names hold keywords of one, two or no restaurant
ChainMenu ==
    << MenuItemTemplate("Iced Tea", Cents(150), <<>>, <<>>, <<>>, <<>>, <<"iced tea">>),
       MenuItemTemplate("Spicy Chicken Biscuit", Cents(450), <<>>, <<>>, <<>>, <<>>, <<"chicken biscuit">>),
       MenuItemTemplate("Taco King", Cents(350), <<>>, <<>>, <<>>, <<>>, <<"taco king">>),
       MenuItemTemplate("Frosty", Cents(200), <<>>, <<>>, <<>>, <<>>, <<"frosty">>),
       MenuItemTemplate("Lemonade", Cents(175), <<>>, <<>>, <<>>, <<>>, <<"lemonade">>) >>

\* the catalogs a parser is constructed with
Catalogs == {Menu, DuplicateMenu, NegativeMenu, SizesMenu, CollisionMenu, ChainMenu}

\* the items a caller puts into the list it constructed the parser with
NewItems == {MenuItemTemplate("Brownie", Cents(250), <<>>, <<>>, <<>>, <<>>, <<"brownie">>)}

\* the texts of the calls on these catalogs
CatalogTexts ==
    {"two brownies", "two fries and a cookie", "starbucks cookie", "large shake and milkshake",
     "extra large soda", "veggie wrap special", "milkshake and two shake"}

MaxChanges == 1

\* the texts of the calls that run interleaved
ConcurrentTexts == {Scenario3, "two fries and cheese sticks with extra cheese"}

NCalls == 2

Calls == 1..NCalls

\* LLMConfig: the fields generate reads
LLMConfig(max_retries) == [timeout |-> 600, max_retries |-> max_retries]

\* OllamaClient.__init__; log is the sequence of the requests and the waits of the running call
OllamaClient(config) == [config |-> config, pc |-> "idle", attempt |-> 0, log |-> <<>>, result |-> Nothing]

IdleCall ==
    [pc |-> "idle", text |-> Some(""), clean_text |-> "", detected_restaurant |-> None, confidence |-> FloatZero,
     scoped |-> FALSE, restaurant_items |-> <<>>, quantities |-> <<>>, sizes |-> <<>>,
     modifications |-> <<>>, found_items |-> <<>>, raised |-> None, order |-> EmptyOrder]

\* BaselineOrderParser.__init__ and _build_indexes; no call has been made
Init ==
    /\ menu_items = Menu
    /\ name_to_item = BuildNames(Menu, Len(Menu))
    /\ keyword_to_item = BuildKeywords(Menu, Len(Menu))
    /\ restaurant_to_items = BuildRestaurants(Menu, Len(Menu))
    /\ copy_on_model_validation \in BOOLEAN
    /\ catalog_changes = 0
    /\ calls = [c \in Calls |-> IdleCall]
    /\ returned = <<>>
    /\ client = OllamaClient(LLMConfig(3))

\* BaselineOrderParser.__init__ and _build_indexes with one of the catalogs: no item of the
\* list is rejected
InitCatalog ==
    /\ menu_items \in Catalogs
    /\ name_to_item = BuildNames(menu_items, Len(menu_items))
    /\ keyword_to_item = BuildKeywords(menu_items, Len(menu_items))
    /\ restaurant_to_items = BuildRestaurants(menu_items, Len(menu_items))
    /\ copy_on_model_validation \in BOOLEAN
    /\ catalog_changes = 0
    /\ calls = [c \in Calls |-> IdleCall]
    /\ returned = <<>>
    /\ client = OllamaClient(LLMConfig(3))

parser == <<menu_items, name_to_item, keyword_to_item, restaurant_to_items, copy_on_model_validation>>

\* no call is between its entry and its return
Sequential == \A c \in Calls : calls[c].pc \in {"idle", "done"}

\* a caller enters parse_order(text); the calls are numbered in the order they are entered
Call(c, text) ==
    /\ calls[c].pc = "idle"
    /\ \A d \in 1..(c - 1) : calls[d].pc # "idle"
    /\ calls' = [calls EXCEPT ![c] = [IdleCall EXCEPT !.pc = "preprocess", !.text = text]]
    /\ UNCHANGED <<parser, catalog_changes, returned, client>>

\* clean_text = self.preprocess_text(text)
Preprocess(c) ==
    /\ calls[c].pc = "preprocess"
    /\ calls' = [calls EXCEPT ![c].pc = "detect", ![c].clean_text = preprocess_text(calls[c].text)]
    /\ UNCHANGED <<parser, catalog_changes, returned, client>>

\* detect_restaurant and the choice of the items to search
DetectRestaurant(c) ==
    /\ calls[c].pc = "detect"
    /\ \E detected \in {detect_restaurant(calls[c].clean_text)} :
           calls' = [calls EXCEPT
                        ![c].pc = "quantities",
                        ![c].detected_restaurant = detected[1],
                        ![c].confidence = detected[2],
                        ![c].scoped = Confident(detected),
                        ![c].restaurant_items =
                            IF Confident(detected)
                            THEN get_restaurant_menu_items(restaurant_to_items, detected[1])
                            ELSE <<>>]
    /\ UNCHANGED <<parser, catalog_changes, returned, client>>

\* quantities = self.extract_quantities(clean_text), or the ValueError it raises
ExtractQuantities(c) ==
    /\ calls[c].pc = "quantities"
    /\ calls' = IF extract_quantities_raises(calls[c].clean_text)
                THEN [calls EXCEPT ![c].pc = "return", ![c].raised = "ValueError"]
                ELSE [calls EXCEPT ![c].pc = "sizes",
                                   ![c].quantities = extract_quantities(keyword_to_item, calls[c].clean_text)]
    /\ UNCHANGED <<parser, catalog_changes, returned, client>>

\* sizes = self.extract_sizes(clean_text)
ExtractSizes(c) ==
    /\ calls[c].pc = "sizes"
    /\ calls' = [calls EXCEPT ![c].pc = "modifications",
                              ![c].sizes = extract_sizes(keyword_to_item, calls[c].clean_text)]
    /\ UNCHANGED <<parser, catalog_changes, returned, client>>

\* modifications = self.extract_modifications(clean_text)
ExtractModifications(c) ==
    /\ calls[c].pc = "modifications"
    /\ calls' = [calls EXCEPT ![c].pc = "find",
                              ![c].modifications =
                                  extract_modifications_into(calls[c].clean_text, new_modifications)]
    /\ UNCHANGED <<parser, catalog_changes, returned, client>>

\* found_items = self.find_menu_items(clean_text, restaurant_items)
FindMenuItems(c) ==
    /\ calls[c].pc = "find"
    /\ calls' = [calls EXCEPT ![c].pc = "assemble",
                              ![c].found_items = find_menu_items(calls[c].clean_text, calls[c].scoped,
                                                                 calls[c].restaurant_items, menu_items)]
    /\ UNCHANGED <<parser, catalog_changes, returned, client>>

\* the loop over found_items, the notes and Order(...), or the TypeError of len(text)
Assemble(c) ==
    /\ calls[c].pc = "assemble"
    /\ calls' = IF notes_raise(calls[c].text)
                THEN [calls EXCEPT ![c].pc = "return", ![c].raised = "TypeError"]
                ELSE [calls EXCEPT
                         ![c].pc = "return",
                         ![c].order =
                             [items |-> order_items(calls[c].found_items, calls[c].quantities,
                                                    calls[c].sizes, calls[c].modifications,
                                                    copy_on_model_validation),
                              customer_notes |-> customer_notes(calls[c].text, calls[c].detected_restaurant)]]
    /\ UNCHANGED <<parser, catalog_changes, returned, client>>

\* the call ends: the caller gets the Order, or the exception
Return(c) ==
    /\ calls[c].pc = "return"
    /\ calls' = [calls EXCEPT ![c].pc = "done"]
    /\ returned' = Append(returned, [call |-> c, text |-> calls[c].text,
                                     raised |-> calls[c].raised, order |-> calls[c].order])
    /\ UNCHANGED <<parser, catalog_changes, client>>

\* self.menu_items is the list the caller passed: what the caller does to its list is done
\* to the catalog of the parser, and nothing calls _build_indexes again
ChangeCatalog(catalog) ==
    /\ Sequential
    /\ catalog_changes < MaxChanges
    /\ menu_items' = catalog
    /\ catalog_changes' = catalog_changes + 1
    /\ UNCHANGED <<name_to_item, keyword_to_item, restaurant_to_items, copy_on_model_validation,
                   calls, returned, client>>

\* menu_items.append(item)
AppendItem == \E item \in NewItems : ChangeCatalog(Append(menu_items, item))

\* menu_items.pop()
PopItem == menu_items # <<>> /\ ChangeCatalog(SubSeq(menu_items, 1, Len(menu_items) - 1))

\* menu_items[0] = item
ReplaceItem == menu_items # <<>> /\ \E item \in NewItems : ChangeCatalog([menu_items EXCEPT ![1] = item])

Step(c) ==
    \/ Preprocess(c)
    \/ DetectRestaurant(c)
    \/ ExtractQuantities(c)
    \/ ExtractSizes(c)
    \/ ExtractModifications(c)
    \/ FindMenuItems(c)
    \/ Assemble(c)
    \/ Return(c)

\* one caller: a call is entered when no other call is running
Next ==
    \E c \in Calls :
        \/ Sequential /\ \E text \in Texts : Call(c, text)
        \/ Step(c)

Spec == Init /\ [][Next]_vars

\* one caller, a parser constructed with any of the catalogs, and a caller that changes its list
\* between two calls
NextCatalog ==
    \/ \E c \in Calls :
           \/ Sequential /\ \E text \in CatalogTexts : Call(c, Some(text))
           \/ Step(c)
    \/ AppendItem
    \/ PopItem
    \/ ReplaceItem

SpecCatalog == InitCatalog /\ [][NextCatalog]_vars

\* the texts of the calls that bind quantities to one or two keywords of an item
LineTexts ==
    {"two shake and three milkshake and soda", "three milkshake and two shake", "milkshake and two shake",
     "two fries and cheese sticks"}

\* one caller of parse_order on a parser constructed with any of the catalogs
NextLines ==
    \E c \in Calls :
        \/ Sequential /\ \E text \in LineTexts : Call(c, Some(text))
        \/ Step(c)

SpecLines == InitCatalog /\ [][NextLines]_vars

\* several callers: the calls interleave between any two steps
NextConcurrent ==
    \E c \in Calls :
        \/ \E text \in ConcurrentTexts : Call(c, Some(text))
        \/ Step(c)

SpecConcurrent == Init /\ [][NextConcurrent]_vars

\* the texts extract_modifications is called with directly, in the casing of the caller
ModificationTexts ==
    {"fries mayo and ketchup on the side", "side of ranch and ketchup", "mayo, ketchup on the side",
     "fries with salsa verde", "extra pizza sauce", "hold the mayo", "with a pickle",
     "no Ketchup ketchup", "no ketchup KETCHUP", "extra cheese no Cheese", Scenario5}

\* a caller enters extract_modifications(text) when no other call of it is running
EnterExtractModifications(c, text) ==
    /\ \A d \in Calls : calls[d].pc \in {"idle", "extracted"}
    /\ calls[c].pc = "idle"
    /\ \A d \in 1..(c - 1) : calls[d].pc # "idle"
    /\ calls' = [calls EXCEPT ![c] = [IdleCall EXCEPT !.pc = "first_pass", !.text = Some(text),
                                                      !.modifications = new_modifications]]
    /\ UNCHANGED <<parser, catalog_changes, returned, client>>

\* self._extract_sequential_modifications(text, modifications)
FirstPass(c) ==
    /\ calls[c].pc = "first_pass"
    /\ calls' = [calls EXCEPT
                    ![c].pc = "second_pass",
                    ![c].modifications = _extract_sequential_modifications(calls[c].text[1], calls[c].modifications)]
    /\ UNCHANGED <<parser, catalog_changes, returned, client>>

\* the loop over modification_patterns
SecondPass(c) ==
    /\ calls[c].pc = "second_pass"
    /\ calls' = [calls EXCEPT
                    ![c].pc = "third_pass",
                    ![c].modifications = StandardPass(calls[c].text[1], 1, calls[c].modifications)]
    /\ UNCHANGED <<parser, catalog_changes, returned, client>>

\* self._extract_standalone_condiments(text, modifications); return modifications
ThirdPass(c) ==
    /\ calls[c].pc = "third_pass"
    /\ calls' = [calls EXCEPT
                    ![c].pc = "extracted",
                    ![c].modifications = _extract_standalone_condiments(calls[c].text[1], calls[c].modifications)]
    /\ UNCHANGED <<parser, catalog_changes, returned, client>>

\* one caller of extract_modifications
NextModifications ==
    \E c \in Calls :
        \/ \E text \in ModificationTexts : EnterExtractModifications(c, text)
        \/ FirstPass(c)
        \/ SecondPass(c)
        \/ ThirdPass(c)

SpecModifications == Init /\ [][NextModifications]_vars

\* s * n of Python
RECURSIVE Repeat(_, _)
Repeat(s, n) ==
    IF n = 0 THEN ""
    ELSE IF n % 2 = 0 THEN Repeat(s, n \div 2) \o Repeat(s, n \div 2)
    ELSE Repeat(s, n - 1) \o s

\* a word of one decimal digit more than int() converts
LongNumber == Repeat("1", int_max_str_digits + 1)

\* the normalized texts extract_quantities is called with directly
QuantityTexts ==
    {"couple of cheese sticks and fries", "0 fries", "two protein shake", "two fries cheese sticks",
     "a big mac and 3 fries", "two", "three veggie wrap special", "two large hot crispy fries",
     "2 fries 4 fries", "² fries", LongNumber \o " fries"}

\* a caller enters extract_quantities(text) when no other call of it is running
EnterExtractQuantities(c, text) ==
    /\ \A d \in Calls : calls[d].pc \in {"idle", "counted", "raised"}
    /\ calls[c].pc = "idle"
    /\ \A d \in 1..(c - 1) : calls[d].pc # "idle"
    /\ calls' = [calls EXCEPT ![c] = [IdleCall EXCEPT !.pc = "number_pass", !.text = Some(text), !.clean_text = text]]
    /\ UNCHANGED <<parser, catalog_changes, returned, client>>

\* Pattern 1: the loop over the words, or the ValueError of int(word) that ends the call
NumberPass(c) ==
    /\ calls[c].pc = "number_pass"
    /\ calls' = IF extract_quantities_raises(calls[c].clean_text)
                THEN [calls EXCEPT ![c].pc = "raised", ![c].raised = "ValueError"]
                ELSE [calls EXCEPT
                         ![c].pc = "implicit_pass",
                         ![c].quantities = QuantityPass(keyword_to_item, Split(calls[c].clean_text), 1, <<>>)]
    /\ UNCHANGED <<parser, catalog_changes, returned, client>>

\* Pattern 2: the loop over context_quantities; return quantities
ImplicitPass(c) ==
    /\ calls[c].pc = "implicit_pass"
    /\ calls' = [calls EXCEPT
                    ![c].pc = "counted",
                    ![c].quantities = ContextPass(keyword_to_item, calls[c].clean_text, 1, calls[c].quantities)]
    /\ UNCHANGED <<parser, catalog_changes, returned, client>>

\* one caller of extract_quantities on a parser constructed with any of the catalogs
NextQuantities ==
    \E c \in Calls :
        \/ \E text \in QuantityTexts : EnterExtractQuantities(c, text)
        \/ NumberPass(c)
        \/ ImplicitPass(c)

SpecQuantities == InitCatalog /\ [][NextQuantities]_vars

\* the texts detect_restaurant is called with directly
DetectionTexts ==
    {"spicy chicken", "pepperoni pizza", "cajun fries from popeyes", "asdkfjasdf", "", "kfc fries",
     "taco bell whopper", "big mac and a whopper", "kingdom", "Starbucks Latte", "two fries",
     "hot dog and a corn dog", "king taco", "wendy donut"}

\* a caller calls detect_restaurant(text): the restaurant and the confidence it returns
CallDetectRestaurant(c, text) ==
    /\ calls[c].pc = "idle"
    /\ \A d \in 1..(c - 1) : calls[d].pc # "idle"
    /\ \E detected \in {detect_restaurant(text)} :
           calls' = [calls EXCEPT ![c] = [IdleCall EXCEPT !.pc = "detected", !.text = Some(text),
                                                          !.detected_restaurant = detected[1],
                                                          !.confidence = detected[2]]]
    /\ UNCHANGED <<parser, catalog_changes, returned, client>>

\* the callers of detect_restaurant
NextDetection == \E c \in Calls : \E text \in DetectionTexts : CallDetectRestaurant(c, text)

SpecDetection == Init /\ [][NextDetection]_vars

\* the texts of the calls that name a restaurant with more or less confidence
ScopingTexts ==
    {"kfc fries", "taco and fries", "kingdom fries", "big mac and fries", "two fries",
     "whopper and a big mac", "two cookies", "two mcchickens", "subways fries"}

\* one caller of parse_order with these texts
NextScoping ==
    \E c \in Calls :
        \/ Sequential /\ \E text \in ScopingTexts : Call(c, Some(text))
        \/ Step(c)

SpecScoping == Init /\ [][NextScoping]_vars

(***************************************************************************)
(* OllamaClient.generate                                                   *)
(***************************************************************************)
\* the largest config.max_retries a client is constructed with
MaxRetries == 3

\* what the server sends as the body of an answer: a JSON object, as a dict whose values
\* are strings or null, or no JSON
Bodies ==
    { [json |-> TRUE, value |-> << <<"response", Some(" two fries ")>> >>],
      [json |-> TRUE, value |-> <<>>],
      [json |-> TRUE, value |-> << <<"response", Nothing>> >>],
      [json |-> FALSE, value |-> <<>>] }

\* how requests.post ends: an answer, requests.exceptions.Timeout or another exception
Outcomes ==
    {[kind |-> "response", status_code |-> 200, body |-> b] : b \in Bodies}
        \cup {[kind |-> "response", status_code |-> 500, body |-> [json |-> FALSE, value |-> <<>>]],
              [kind |-> "timeout", status_code |-> 0, body |-> [json |-> FALSE, value |-> <<>>]],
              [kind |-> "exception", status_code |-> 0, body |-> [json |-> FALSE, value |-> <<>>]]}

\* result.get('response', '')
ResponseField(body) == IF DictHas(body.value, "response") THEN DictGet(body.value, "response") ELSE Some("")

\* response.json() or .strip() raises: the body is no JSON, or its 'response' is null
BodyRaises(body) == ~body.json \/ ResponseField(body) = Nothing

\* the attempt leaves the try block through one of the two except clauses
Raises(outcome) ==
    \/ outcome.kind \in {"timeout", "exception"}
    \/ outcome.status_code = 200 /\ BodyRaises(outcome.body)

\* backoff after every attempt that raised, the last one included
AlwaysBackoff(attempt, max_retries) == TRUE

\* if attempt < self.config.max_retries - 1
ShouldBackoff(attempt, max_retries) == attempt < max_retries - 1

\* a client constructed with its own configuration
InitGenerate ==
    /\ menu_items = Menu
    /\ name_to_item = BuildNames(Menu, Len(Menu))
    /\ keyword_to_item = BuildKeywords(Menu, Len(Menu))
    /\ restaurant_to_items = BuildRestaurants(Menu, Len(Menu))
    /\ copy_on_model_validation \in BOOLEAN
    /\ catalog_changes = 0
    /\ calls = [c \in Calls |-> IdleCall]
    /\ returned = <<>>
    /\ \E max_retries \in 0..MaxRetries : client = OllamaClient(LLMConfig(max_retries))

\* a caller enters generate(prompt); the client has no call running
CallGenerate ==
    /\ client.pc \in {"idle", "returned"}
    /\ client' = [OllamaClient(client.config) EXCEPT !.pc = "for"]
    /\ UNCHANGED <<parser, catalog_changes, calls, returned>>

\* for attempt in range(self.config.max_retries): the next attempt begins
NextAttempt ==
    /\ client.pc = "for"
    /\ client.attempt < client.config.max_retries
    /\ client' = [client EXCEPT !.pc = "post"]
    /\ UNCHANGED <<parser, catalog_changes, calls, returned>>

\* requests.post(...) ends, and the rest of the try block and the except clauses up to the wait
Post(outcome) ==
    /\ client.pc = "post"
    /\ client' =
           LET logged == [client EXCEPT !.log = Append(@, [event |-> "post", outcome |-> outcome, seconds |-> 0])]
           IN  IF outcome.kind = "response" /\ outcome.status_code = 200 /\ ~BodyRaises(outcome.body)
               THEN [logged EXCEPT !.result = Some(Strip(ResponseField(outcome.body)[1])), !.pc = "returned"]
               ELSE IF Raises(outcome) /\ ShouldBackoff(client.attempt, client.config.max_retries)
               THEN [logged EXCEPT !.pc = "sleep"]
               ELSE [logged EXCEPT !.attempt = @ + 1, !.pc = "for"]
    /\ UNCHANGED <<parser, catalog_changes, calls, returned>>

\* time.sleep(2 ** attempt)
Backoff ==
    /\ client.pc = "sleep"
    /\ client' = [client EXCEPT !.log = Append(@, [event |-> "sleep", outcome |-> None, seconds |-> 2 ^ client.attempt]),
                                !.attempt = @ + 1, !.pc = "for"]
    /\ UNCHANGED <<parser, catalog_changes, calls, returned>>

\* the loop is exhausted: return None
ReturnNone ==
    /\ client.pc = "for"
    /\ client.attempt >= client.config.max_retries
    /\ client' = [client EXCEPT !.result = Nothing, !.pc = "returned"]
    /\ UNCHANGED <<parser, catalog_changes, calls, returned>>

\* a step of the running call of generate
GenerateStep == NextAttempt \/ (\E outcome \in Outcomes : Post(outcome)) \/ Backoff \/ ReturnNone

NextGenerate == CallGenerate \/ GenerateStep

SpecGenerate == InitGenerate /\ [][NextGenerate]_vars

\* every request ends, with an answer or an exception, every wait ends, and the thread of the call runs on
SpecGenerateFair == SpecGenerate /\ WF_vars(GenerateStep)

(***************************************************************************)
(* Properties                                                              *)
(***************************************************************************)
Ended(c) == calls[c].pc \in {"return", "done"}

Returns(c) == Ended(c) /\ calls[c].raised = None

HasModification(line, mod_type, mod_item) ==
    \E m \in 1..Len(line.modifications) :
        line.modifications[m].type = mod_type /\ line.modifications[m].item = mod_item

Targets(line, mod_item) ==
    \E m \in 1..Len(line.modifications) : line.modifications[m].item = mod_item

Lists(name, mod_item) ==
    \E i \in 1..Len(menu_items) :
        /\ menu_items[i].name = name
        /\ \E k \in 1..Len(menu_items[i].available_modifications) :
               Lower(menu_items[i].available_modifications[k]) = Lower(mod_item)

\* C1: parse_order on the text of Scenario 1 returns exactly three lines, McChicken, Fries of
\* size Large and Sprite of size Medium, and "add mayo" and "add ketchup" are only on lines
\* whose item lists them.
C1_Scenario1 ==
    \A k \in 1..Len(returned) :
        returned[k].text = Some(Scenario1) =>
            LET items == returned[k].order.items
            IN  /\ returned[k].raised = None
                /\ Len(items) = 3
                /\ \E a, b, c \in 1..Len(items) :
                       /\ items[a].name = "McChicken"
                       /\ items[b].name = "Fries" /\ items[b].size = "Large"
                       /\ items[c].name = "Sprite" /\ items[c].size = "Medium"
                /\ \A i \in 1..Len(items) : \A mod_item \in {"mayo", "ketchup"} :
                       Targets(items[i], mod_item) => Lists(items[i].name, mod_item)

\* C2: preprocess_text is idempotent: normalizing the text a call has normalized leaves it as
\* it is.
C2_Idempotent ==
    \A c \in Calls :
        calls[c].pc \notin {"idle", "preprocess"} =>
            preprocess_text(Some(calls[c].clean_text)) = calls[c].clean_text

\* C3: extract_modifications on "no pickles no lettuce no onions" gives exactly three
\* modifications, all of type remove, of pickles, lettuce and onions.
C3_ThreeRemovals ==
    \A c \in Calls :
        (calls[c].pc \in {"find", "assemble", "return", "done"} /\ calls[c].clean_text = Scenario5) =>
            LET modifications == calls[c].modifications
            IN  /\ Len(modifications) = 3
                /\ \A m \in 1..3 : modifications[m].type = "remove"
                /\ {modifications[m].item : m \in 1..Len(modifications)} = {"pickles", "lettuce", "onions"}

\* C4: every modification on a line of a returned Order is, whatever the case, one of the
\* available_modifications of the item of the line; a modification that an item does not
\* list is left out of that item's line only, and the calls that raise do so for a missing text
\* or a quantity word, never for a modification.
C4_ValidModifications ==
    \A c \in Calls :
        /\ Returns(c) =>
               \A i \in 1..Len(calls[c].order.items) :
                   LET line == calls[c].order.items[i]
                   IN  /\ \A m \in 1..Len(line.modifications) : Lists(line.name, line.modifications[m].item)
                       /\ \A j \in 1..Len(calls[c].modifications) :
                              Lists(line.name, calls[c].modifications[j].item)
                                  <=> Targets(line, calls[c].modifications[j].item)
        /\ (Ended(c) /\ calls[c].raised # None) =>
               (calls[c].text = Nothing \/ extract_quantities_raises(calls[c].clean_text))

\* a returned line keeps a modification its item lists under another case, and the same call
\* extracted a modification that the line does not carry
C4_Witness ==
    \E c \in Calls :
        /\ calls[c].pc = "done" /\ calls[c].raised = None
        /\ \E i \in 1..Len(calls[c].order.items) :
               LET line == calls[c].order.items[i]
               IN  /\ HasModification(line, "remove", "pickles")
                   /\ \E j \in 1..Len(calls[c].modifications) :
                          ~Targets(line, calls[c].modifications[j].item)

\* C5: when detect_restaurant gives a restaurant with a confidence above 0.3 for the
\* normalized text, every line of the returned Order names an item of restaurant_to_items
\* of that restaurant.
C5_RestaurantScoping ==
    \A c \in Calls :
        (Returns(c) /\ Confident(<<calls[c].detected_restaurant, calls[c].confidence>>)) =>
            \A i \in 1..Len(calls[c].order.items) :
                \E k \in 1..Len(get_restaurant_menu_items(restaurant_to_items, calls[c].detected_restaurant)) :
                    get_restaurant_menu_items(restaurant_to_items, calls[c].detected_restaurant)[k].name
                        = calls[c].order.items[i].name

\* a call with a confident detection has returned a line, and its text also holds the keyword
\* of an item of another restaurant
C5_Witness ==
    \E c \in Calls :
        /\ calls[c].pc = "done" /\ calls[c].raised = None
        /\ Confident(<<calls[c].detected_restaurant, calls[c].confidence>>)
        /\ calls[c].order.items # <<>>
        /\ \E i \in 1..Len(menu_items) :
               /\ WordMatch(menu_items[i].keywords[1], calls[c].clean_text)
               /\ _identify_item_restaurant(menu_items[i]) # calls[c].detected_restaurant

\* the sum of the price_change of the modifications, with every digit
RECURSIVE ExactSum(_, _)
ExactSum(modifications, n) ==
    IF n = 0 THEN FromInt(0) ELSE ExactAdd(ExactSum(modifications, n - 1), modifications[n].price_change)

\* C6: the total_price of every OrderItem is the number
\* (base_price + sum of the price_change of its modifications) * quantity, with no rounding.
C6_PriceLaw ==
    \A k \in 1..Len(returned) :
        \A i \in 1..Len(returned[k].order.items) :
            LET item == returned[k].order.items[i]
            IN  DecimalEq(total_price(item),
                          ExactMul(ExactAdd(item.base_price, ExactSum(item.modifications, Len(item.modifications))),
                                   FromInt(item.quantity)))

\* C7: a call that returns, however its steps interleave with those of the other calls,
\* returns what parse_order returns for its text when it runs alone, and what every earlier
\* call with the same text returned.
C7_Isolation ==
    [][\A c \in Calls :
           Return(c) =>
               \E result \in {returned'[Len(returned')]} :
                   /\ [raised |-> result.raised, order |-> result.order]
                          = parse_order(menu_items, keyword_to_item, restaurant_to_items,
                                        copy_on_model_validation, calls[c].text)
                   /\ \A k \in 1..Len(returned) :
                          returned[k].text = result.text =>
                              returned[k].raised = result.raised /\ returned[k].order = result.order]_vars

\* two calls with the same text are in flight together, each with its Order built from a
\* non-empty list of modifications, and each about to return
C7_Witness ==
    /\ calls[1].pc = "return" /\ calls[2].pc = "return"
    /\ calls[1].text = calls[2].text
    /\ calls[1].modifications # <<>>
    /\ calls[1].order.items # <<>>

\* C8: parse_order on the text of Scenario 3 returns a Big Mac line with "remove pickles" and
\* a Fries line with "extra salt"; the Big Mac line has no modification of salt and the Fries
\* line none of pickles.
C8_Scenario3 ==
    \A k \in 1..Len(returned) :
        returned[k].text = Some(Scenario3) =>
            LET items == returned[k].order.items
            IN  /\ returned[k].raised = None
                /\ \E a \in 1..Len(items) :
                       /\ items[a].name = "Big Mac"
                       /\ HasModification(items[a], "remove", "pickles")
                       /\ ~Targets(items[a], "salt")
                /\ \E b \in 1..Len(items) :
                       /\ items[b].name = "Fries"
                       /\ HasModification(items[b], "extra", "salt")
                       /\ ~Targets(items[b], "pickles")

\* C9: a call on a text in which no tier of the matcher finds a keyword of the catalog ends
\* without raising, with an Order of no lines whose subtotal, tax_amount, total_amount and
\* item_count are zero.
C9_NothingMatched ==
    [][\A c \in Calls :
           (/\ Return(c)
            /\ calls[c].text # Nothing
            /\ find_menu_items(calls[c].clean_text, FALSE, <<>>, menu_items) = <<>>) =>
               LET result == returned'[Len(returned')]
               IN  /\ result.raised = None
                   /\ result.order.items = <<>>
                   /\ IsZero(subtotal(result.order))
                   /\ IsZero(tax_amount(result.order))
                   /\ IsZero(total_amount(result.order))
                   /\ item_count(result.order) = 0]_vars

\* C10: parse_order never raises: every call that ends returns an Order.
C10_NeverRaises == \A k \in 1..Len(returned) : returned[k].raised = None

\* C11: whatever changes the catalog has gone through, a running parse_order call finds the
\* name, keyword and restaurant indexes equal to the ones built from the catalog as it is.
C11_FreshIndexes ==
    \A c \in Calls :
        calls[c].pc \notin {"idle", "done"} =>
            /\ name_to_item = BuildNames(menu_items, Len(menu_items))
            /\ keyword_to_item = BuildKeywords(menu_items, Len(menu_items))
            /\ restaurant_to_items = BuildRestaurants(menu_items, Len(menu_items))

DuplicateNames(items) == \E i, j \in 1..Len(items) : i # j /\ items[i].name = items[j].name

NegativePrice(items) == \E i \in 1..Len(items) : IsNegative(items[i].base_price)

\* C12: no parse_order call runs on a parser constructed with a catalog that holds two items
\* of one name or an item of a negative price: the construction of such a parser fails.
C12_FailFast ==
    \A c \in Calls :
        (calls[c].pc # "idle" /\ catalog_changes = 0) =>
            ~DuplicateNames(menu_items) /\ ~NegativePrice(menu_items)

\* C13: when the detected restaurant has no items in restaurant_to_items, a call matches the
\* text against the whole catalog: an item of the catalog that the text names gives a line.
C13_FullCatalogFallback ==
    \A c \in Calls :
        (/\ Returns(c)
         /\ Confident(<<calls[c].detected_restaurant, calls[c].confidence>>)
         /\ get_restaurant_menu_items(restaurant_to_items, calls[c].detected_restaurant) = <<>>) =>
            /\ calls[c].found_items = find_menu_items(calls[c].clean_text, FALSE, <<>>, menu_items)
            /\ (calls[c].found_items # <<>> => calls[c].order.items # <<>>)

\* the sum of a list of Decimals as sum() computes it, from the int 0 and left to right
RECURSIVE DecimalSum(_)
DecimalSum(amounts) ==
    IF amounts = <<>> THEN FromInt(0)
    ELSE DecimalAdd(DecimalSum(SubSeq(amounts, 1, Len(amounts) - 1)), amounts[Len(amounts)])

\* the same sum as a number, with every digit
RECURSIVE ExactTotal(_)
ExactTotal(amounts) ==
    IF amounts = <<>> THEN FromInt(0)
    ELSE ExactAdd(ExactTotal(SubSeq(amounts, 1, Len(amounts) - 1)), amounts[Len(amounts)])

\* the exact result has no more digits than the context keeps
Fits(x) == Len(x.digits) <= prec

\* the sum of the quantities, left to right
RECURSIVE QuantitySum(_, _)
QuantitySum(items, n) == IF n = 0 THEN 0 ELSE QuantitySum(items, n - 1) + items[n].quantity

\* C14: for every Order a call returns, the empty one included, subtotal is the sum of the
\* total_price of the lines, tax_amount is subtotal * 0.08, total_amount is subtotal +
\* tax_amount, each as Decimal computes it and with every digit when the result has at most
\* prec digits, and item_count is the sum of the quantities of the lines.
C14_OrderTotals ==
    \A c \in Calls :
           (calls[c].pc = "return" /\ calls[c].raised = None) =>
               LET order == calls[c].order
                   totals == [i \in 1..Len(order.items) |-> total_price(order.items[i])]
                   eight_percent == Decimal(<<8>>, -2)
                   sum == DecimalSum(totals)
                   exact == ExactTotal(totals)
                   exact_tax == ExactMul(exact, eight_percent)
                   exact_total == ExactAdd(exact, exact_tax)
               IN  /\ DecimalEq(subtotal(order), sum)
                   /\ Fits(exact) => DecimalEq(subtotal(order), exact)
                   /\ DecimalEq(tax_amount(order), DecimalMul(sum, eight_percent))
                   /\ Fits(exact_tax) => DecimalEq(tax_amount(order), exact_tax)
                   /\ DecimalEq(total_amount(order), DecimalAdd(sum, DecimalMul(sum, eight_percent)))
                   /\ Fits(exact_total) => DecimalEq(total_amount(order), exact_total)
                   /\ item_count(order) = QuantitySum(order.items, Len(order.items))
                   /\ (order.items = <<>> =>
                          /\ IsZero(subtotal(order)) /\ IsZero(tax_amount(order))
                          /\ IsZero(total_amount(order)) /\ item_count(order) = 0)

\* an Order of two lines or more, with a quantity above 1 and a priced modification, has been
\* returned, and so has an Order of no line
C14_Witness ==
    /\ \E k \in 1..Len(returned) :
           /\ returned[k].raised = None
           /\ Len(returned[k].order.items) >= 2
           /\ item_count(returned[k].order) > Len(returned[k].order.items)
           /\ \E i \in 1..Len(returned[k].order.items) :
                  \E m \in 1..Len(returned[k].order.items[i].modifications) :
                      ~IsZero(returned[k].order.items[i].modifications[m].price_change)
    /\ \E k \in 1..Len(returned) : returned[k].raised = None /\ returned[k].order.items = <<>>


\* the catalog item a line of an Order was built from
OwnItem(line) == menu_items[CHOOSE i \in 1..Len(menu_items) : menu_items[i].name = line.name]

\* C15: for every line of an Order a call returns and every modification on the line,
\* price_change is the entry of the line's own item's modification_pricing for the
\* modification's target, 0 when the item has no entry, also when the same extracted
\* modification is on several lines whose items price the target differently.
C15_OwnPrice ==
    \A c \in Calls :
        Returns(c) =>
            \A i \in 1..Len(calls[c].order.items) :
                \A k \in 1..Len(calls[c].order.items[i].modifications) :
                    LET line == calls[c].order.items[i]
                        mod == line.modifications[k]
                        pricing == OwnItem(line).modification_pricing
                    IN  DecimalEq(mod.price_change,
                                  IF DictHas(pricing, Lower(mod.item))
                                  THEN DictGet(pricing, Lower(mod.item)) ELSE Cents(0))


\* C16: every line of an Order a call returns that has a size has a size its own item
\* offers in available_sizes; an item with no size variants never gets a size.
C16_OwnSize ==
    \A c \in Calls :
        (Returns(c) /\ catalog_changes = 0) =>
            \A i \in 1..Len(calls[c].order.items) :
                LET line == calls[c].order.items[i]
                IN  line.size # None =>
                        \E m \in 1..Len(menu_items) :
                            /\ menu_items[m].name = line.name
                            /\ InSeq(line.size, menu_items[m].available_sizes)


\* C17: when the two words "extra large" stand directly before a keyword of an item whose
\* available_sizes holds Extra Large, the map extract_sizes returns for the text binds
\* that keyword to Extra Large, also when the item offers Large as well.
C17_ExtraLarge ==
    \A c \in Calls :
        calls[c].pc \notin {"idle", "preprocess"} =>
            LET words == Split(calls[c].clean_text)
                sizes == extract_sizes(keyword_to_item, calls[c].clean_text)
            IN  \A i \in 1..(Len(words) - 2) :
                    ( /\ words[i] = "extra"
                      /\ words[i + 1] = "large"
                      /\ DictHas(keyword_to_item, words[i + 2])
                      /\ InSeq("Extra Large", DictGet(keyword_to_item, words[i + 2]).available_sizes) )
                    => ( /\ DictHas(sizes, words[i + 2])
                         /\ DictGet(sizes, words[i + 2]) = "Extra Large" )


\* C18: in the standard pass of extract_modifications a captured phrase that holds " and "
\* or "," gives one modification per part: no modification the standard pass adds has a
\* target that holds " and " or ",".
C18_PhraseIsSplit ==
    \A c \in Calls :
        calls[c].pc = "third_pass" =>
            LET before == _extract_sequential_modifications(calls[c].text[1], new_modifications)
                after == calls[c].modifications
            IN  \A k \in (Len(before) + 1)..Len(after) :
                    ~Contains(" and ", after[k].item) /\ ~Contains(",", after[k].item)


\* the target starts with one of the articles _add_modification cleans away
StartsWithArticle(target) ==
    \E article \in {"the ", "a ", "some "} :
        Len(target) >= Len(article) /\ SubSeq(target, 1, Len(article)) = article

\* C19: _add_modification removes only a leading article: for every phrase the standard pass
\* captures that does not start with "the", "a" or "some", the target stored in an empty
\* list is the captured phrase, also when a word inside it ends in "a", "the" or "some".
C19_OnlyLeadingArticle ==
    \A c \in Calls :
        calls[c].pc \in {"third_pass", "extracted"} =>
            \A k \in 1..Len(modification_patterns) :
                LET groups == finditer(modification_patterns[k], calls[c].text[1], 1)
                IN  \A g \in 1..Len(groups) :
                        LET target == Strip(groups[g])
                            stored == _add_modification(target, modification_patterns[k].type, new_modifications)
                        IN  (Len(target) > 1 /\ ~StartsWithArticle(target)) =>
                                (Len(stored) = 1 /\ stored[1].item = target)


\* C20: the list extract_modifications returns never holds two modifications whose targets
\* are equal ignoring case, for a text in any casing and across the three passes.
C20_NoDuplicateTargets ==
    \A c \in Calls :
        calls[c].pc = "extracted" =>
            \A j, k \in 1..Len(calls[c].modifications) :
                Lower(calls[c].modifications[j].item) = Lower(calls[c].modifications[k].item) => j = k


\* one of the item's own multi-word keywords is a substring of the text
OwnMultiWord(item, text) ==
    \E k \in 1..Len(item.keywords) :
        Len(Split(Lower(item.keywords[k]))) > 1 /\ Contains(Lower(item.keywords[k]), text)

\* one of the item's own single-word keywords occurs in the text at a word boundary
OwnSingleWord(item, text) ==
    \E k \in 1..Len(item.keywords) :
        Len(Split(Lower(item.keywords[k]))) = 1 /\ WordMatch(Lower(item.keywords[k]), text)

\* C21: the list find_menu_items returns holds each catalog item at most once, each with the
\* highest confidence among the tiers in which one of the item's own keywords matches the
\* text (0.95 for a multi-word keyword that is a substring, else 0.9 for a single-word keyword
\* at a word boundary), sorted by non-increasing confidence.
C21_OwnKeywordConfidence ==
    \A c \in Calls :
        calls[c].pc \in {"assemble", "return", "done"} =>
            LET found == calls[c].found_items
                text == calls[c].clean_text
            IN  /\ \A j, k \in 1..Len(found) : found[j][1] = found[k][1] => j = k
                /\ \A j, k \in 1..Len(found) : j < k => found[j][2] >= found[k][2]
                /\ \A k \in 1..Len(found) :
                       /\ OwnMultiWord(found[k][1], text) => found[k][2] = 95
                       /\ (~OwnMultiWord(found[k][1], text) /\ OwnSingleWord(found[k][1], text))
                              => found[k][2] = 90


\* the positions at which kw occurs in text wholly inside lo..hi
Occurrences(kw, text, lo, hi) ==
    {p \in lo..(hi - Len(kw) + 1) : kw # "" /\ SubSeq(text, p, p + Len(kw) - 1) = kw}

\* the distance from pos to the nearest occurrence of kw inside lo..hi
Nearest(kw, text, pos, lo, hi) ==
    Min({IF p >= pos THEN p - pos ELSE pos - p : p \in Occurrences(kw, text, lo, hi)})

\* C22: in the implicit pass of extract_quantities the keyword bound to the quantity of a
\* vague-quantity phrase is the not-yet-bound catalog keyword that occurs nearest to the
\* phrase inside the window of 20 characters before to 50 after the start of the phrase
\* (stated for the texts that hold one such phrase).
C22_NearestKeyword ==
    \A c \in Calls :
        calls[c].pc = "counted" =>
            LET text == calls[c].clean_text
                before == QuantityPass(keyword_to_item, Split(text), 1, <<>>)
                after == calls[c].quantities
                found == {q \in 1..Len(context_quantities) : Contains(context_quantities[q][1], text)}
            IN  Cardinality(found) = 1 =>
                    LET pos == Find(text, context_quantities[CHOOSE q \in found : TRUE][1])
                        lo == IF pos > 20 THEN pos - 20 ELSE 1
                        hi == IF pos + 49 > Len(text) THEN Len(text) ELSE pos + 49
                        unbound == {k \in 1..Len(keyword_to_item) :
                                       /\ ~DictHas(before, keyword_to_item[k][1])
                                       /\ Occurrences(keyword_to_item[k][1], text, lo, hi) # {}}
                    IN  \A k \in unbound :
                            DictHas(after, keyword_to_item[k][1]) =>
                                \A j \in unbound :
                                    Nearest(keyword_to_item[k][1], text, pos, lo, hi)
                                        <= Nearest(keyword_to_item[j][1], text, pos, lo, hi)


\* the quantity a token stands for: a digit string or a number word; -1 for any other token
TokenValue(word) ==
    IF IntParses(word) THEN int(word)
    ELSE IF DictHas(QUANTITY_KEYWORDS, word) THEN DictGet(QUANTITY_KEYWORDS, word)
    ELSE -1

\* the keywords of the index that occur in the text of the 1 to 3 tokens after token i
KeywordsInWindow(index, words, i) ==
    {k \in 1..Len(index) : index[k][1] # "" /\ Contains(index[k][1], Lower(Join(Window(words, i + 1, i + 3))))}

\* the longest of them
LongestInWindow(index, words, i) ==
    {k \in KeywordsInWindow(index, words, i) :
        \A j \in KeywordsInWindow(index, words, i) : Len(index[j][1]) <= Len(index[k][1])}

\* the quantity tokens of value >= least that a token follows and whose window holds a keyword
Binders(index, words, least) ==
    {i \in 1..(Len(words) - 1) : TokenValue(words[i]) >= least /\ KeywordsInWindow(index, words, i) # {}}

\* quantities binds the longest keyword of the window of every such token to the quantity of
\* the last token that has it as its longest, and binds no other keyword
NumberPassBinds(index, words, quantities, least) ==
    /\ \A i \in Binders(index, words, least) :
           \A k \in LongestInWindow(index, words, i) :
               Cardinality(LongestInWindow(index, words, i)) = 1 =>
                   /\ DictHas(quantities, index[k][1])
                   /\ DictGet(quantities, index[k][1]) =
                          TokenValue(words[Max({j \in Binders(index, words, least) :
                                                   k \in LongestInWindow(index, words, j)})])
    /\ \A n \in 1..Len(quantities) :
           \E i \in Binders(index, words, least) :
               \E k \in LongestInWindow(index, words, i) : index[k][1] = quantities[n][1]

\* C23 (as stated): after the numeric/word pass of extract_quantities, every quantity token
\* (digit string or number word) that a token follows has bound the longest catalog keyword
\* of the text of the next 1 to 3 tokens to its quantity, and no other keyword is bound.
C23_LongestKeyword ==
    \A c \in Calls :
        calls[c].pc = "implicit_pass" =>
            NumberPassBinds(keyword_to_item, Split(calls[c].clean_text), calls[c].quantities, 0)

\* C23 (amended): the same for the quantity tokens whose value is greater than 0; a digit
\* string of value 0 binds nothing.
C23_LongestPositive ==
    \A c \in Calls :
        calls[c].pc = "implicit_pass" =>
            NumberPassBinds(keyword_to_item, Split(calls[c].clean_text), calls[c].quantities, 1)

\* a quantity token whose window holds a shorter and a longer keyword has bound the longer
C23_Witness ==
    \E c \in Calls :
        /\ calls[c].pc = "implicit_pass"
        /\ \E i \in Binders(keyword_to_item, Split(calls[c].clean_text), 1) :
               /\ Cardinality(KeywordsInWindow(keyword_to_item, Split(calls[c].clean_text), i)) >= 2
               /\ \E k \in LongestInWindow(keyword_to_item, Split(calls[c].clean_text), i) :
                      /\ k # Min(KeywordsInWindow(keyword_to_item, Split(calls[c].clean_text), i))
                      /\ DictHas(calls[c].quantities, keyword_to_item[k][1])


\* the positions of the item's keywords that the quantity map binds
BoundKeywords(item, quantities) == {k \in 1..Len(item.keywords) : DictHas(quantities, item.keywords[k])}

\* C24: every line of an Order a call returns has quantity >= 1: the line of a matched item
\* none of whose keywords is bound in the quantity map has quantity 1, and otherwise the
\* quantity bound to the first of the item's keywords, in the item's order, that the map holds.
C24_LineQuantity ==
    \A c \in Calls :
        (calls[c].pc = "return" /\ calls[c].raised = None) =>
            /\ Len(calls[c].order.items) = Len(calls[c].found_items)
            /\ \A i \in 1..Len(calls[c].order.items) :
                   LET line == calls[c].order.items[i]
                       item == calls[c].found_items[i][1]
                       bound == BoundKeywords(item, calls[c].quantities)
                   IN  /\ line.name = item.name
                       /\ line.quantity >= 1
                       /\ bound = {} => line.quantity = 1
                       /\ bound # {} => line.quantity = DictGet(calls[c].quantities, item.keywords[Min(bound)])

\* an Order with a line of an item two of whose keywords are bound to different quantities,
\* the first of them in the item's order not being the first key of the map, a line of an item
\* whose first keyword is not bound and a later one is, and a line of an item with no bound
\* keyword
C24_Witness ==
    \E c \in Calls :
        /\ calls[c].pc = "return" /\ calls[c].raised = None
        /\ \E i, j, k \in 1..Len(calls[c].order.items) :
               LET quantities == calls[c].quantities
                   item == calls[c].found_items[i][1]
                   bound == BoundKeywords(item, quantities)
               IN  /\ Cardinality(bound) >= 2
                   /\ DictGet(quantities, item.keywords[Min(bound)]) # DictGet(quantities, item.keywords[Max(bound)])
                   /\ quantities[1][1] # item.keywords[Min(bound)]
                   /\ calls[c].order.items[i].quantity = DictGet(quantities, item.keywords[Min(bound)])
                   /\ BoundKeywords(calls[c].found_items[j][1], quantities) # {}
                   /\ 1 \notin BoundKeywords(calls[c].found_items[j][1], quantities)
                   /\ calls[c].order.items[j].quantity > 1
                   /\ BoundKeywords(calls[c].found_items[k][1], quantities) = {}
                   /\ calls[c].order.items[k].quantity = 1


\* the restaurants of the table, by position, with a keyword that is a substring of the text
Mentioned(text_lower) ==
    {r \in 1..Len(restaurant_keywords) :
        \E k \in 1..Len(restaurant_keywords[r][2]) : Contains(restaurant_keywords[r][2][k], text_lower)}

\* the total score of the restaurant at position r of the table
TotalScore(text_lower, r) == SumScores(restaurant_keywords[r][2], text_lower, Len(restaurant_keywords[r][2]))

\* the total scores of the first r restaurants of the table
RECURSIVE TotalScores(_, _)
TotalScores(text_lower, r) ==
    IF r = 0 THEN <<>> ELSE Append(TotalScores(text_lower, r - 1), TotalScore(text_lower, r))

\* the restaurants of a maximal total score
TopScored(text_lower) ==
    LET mentioned == Mentioned(text_lower)
        scores == TotalScores(text_lower, Len(restaurant_keywords))
    IN  {r \in mentioned : \A s \in mentioned : ~FloatLess(scores[r], scores[s])}

\* C25: detect_restaurant returns (None, 0.0) exactly when no keyword of any restaurant is a
\* substring of the text; otherwise it returns a restaurant of maximal total score, and of
\* several restaurants of the same maximal score the one registered first in the table.
C25_FirstMaximal ==
    \A c \in Calls :
        calls[c].pc = "detected" =>
            LET text_lower == Lower(calls[c].text[1])
            IN  /\ calls[c].detected_restaurant = None <=> Mentioned(text_lower) = {}
                /\ calls[c].detected_restaurant = None => calls[c].confidence = FloatZero
                /\ Mentioned(text_lower) # {} =>
                       calls[c].detected_restaurant = restaurant_keywords[Min(TopScored(text_lower))][1]

\* a call on a text for which two restaurants have the same maximal score
C25_Witness ==
    \E c \in Calls :
        /\ calls[c].pc = "detected"
        /\ Cardinality(TopScored(Lower(calls[c].text[1]))) >= 2
        /\ calls[c].detected_restaurant # None


\* one of the item's own keywords matches the text in the first or the second tier
Matches(item, text) == OwnMultiWord(item, text) \/ OwnSingleWord(item, text)

\* C26: parse_order restricts the item matching to the subset of the detected restaurant
\* exactly when the confidence of the detection is greater than 0.3; with no restaurant
\* detected or a confidence of 0.3 or less the matcher runs over the full catalog, so that
\* every item of the catalog that the text names is found, whatever its restaurant.
C26_ScopingThreshold ==
    \A c \in Calls :
        calls[c].pc \in {"assemble", "return", "done"} =>
            LET found == calls[c].found_items
                text == calls[c].clean_text
                subset == get_restaurant_menu_items(restaurant_to_items, calls[c].detected_restaurant)
            IN  IF calls[c].detected_restaurant # None /\ FloatLess(ScopingThreshold, calls[c].confidence)
                THEN /\ \A k \in 1..Len(found) : InSeq(found[k][1], subset)
                     /\ \A m \in 1..Len(subset) : Matches(subset[m], text) => Found(subset[m], found)
                ELSE \A m \in 1..Len(menu_items) :
                         Matches(menu_items[m], text) => Found(menu_items[m], found)

\* a call that detects a restaurant with a confidence of exactly 0.3 and finds an item that
\* is not of that restaurant, and a call that detects one with more and finds only its items
C26_Witness ==
    /\ \E c \in Calls :
           /\ calls[c].pc = "done"
           /\ calls[c].detected_restaurant # None /\ calls[c].confidence = ScopingThreshold
           /\ \E k \in 1..Len(calls[c].found_items) :
                  ~InSeq(calls[c].found_items[k][1],
                         get_restaurant_menu_items(restaurant_to_items, calls[c].detected_restaurant))
    /\ \E c \in Calls :
           /\ calls[c].pc \in {"assemble", "return"}
           /\ FloatLess(ScopingThreshold, calls[c].confidence)
           /\ calls[c].found_items # <<>>
           /\ \E m \in 1..Len(menu_items) :
                  Matches(menu_items[m], calls[c].clean_text) /\ ~Found(menu_items[m], calls[c].found_items)


\* a word of the text and a keyword of the item match partially (the third tier)
MatchesPartly(item, text) ==
    \E k \in 1..Len(item.keywords) :
        \E w \in 1..Len(Split(text)) : Partial(Split(text)[w], Lower(item.keywords[k]))

\* C27: the list find_menu_items returns holds an entry of confidence 0.6 only when the first
\* two tiers found no item and no restaurant subset was passed: no list holds a 0.6 entry
\* beside a 0.9 or 0.95 entry, and a restaurant-scoped search returns no 0.6 entry.
C27_PartialOnlyAsFallback ==
    \A c \in Calls :
        calls[c].pc \in {"assemble", "return", "done"} =>
            LET found == calls[c].found_items
                text == calls[c].clean_text
            IN  \A k \in 1..Len(found) :
                    found[k][2] = 60 =>
                        /\ ~(calls[c].detected_restaurant # None /\ FloatLess(ScopingThreshold, calls[c].confidence))
                        /\ \A j \in 1..Len(found) : found[j][2] = 60
                        /\ \A m \in 1..Len(menu_items) : ~Matches(menu_items[m], text)

\* a call that found an item in the third tier, and a restaurant-scoped call that found
\* nothing although a word of its text matches an item of the restaurant partly
C27_Witness ==
    /\ \E c \in Calls :
           /\ calls[c].pc = "done"
           /\ \E k \in 1..Len(calls[c].found_items) : calls[c].found_items[k][2] = 60
    /\ \E c \in Calls :
           /\ calls[c].pc \in {"assemble", "return"}
           /\ calls[c].detected_restaurant # None /\ FloatLess(ScopingThreshold, calls[c].confidence)
           /\ calls[c].found_items = <<>>
           /\ \E m \in 1..Len(calls[c].restaurant_items) :
                  MatchesPartly(calls[c].restaurant_items[m], calls[c].clean_text)


\* the restaurants of the table, by position, with a keyword in the lower-cased name of the item
NameHits(item) == Mentioned(Lower(item.name))

\* the list the item is classified under
Classification(item) == IF NameHits(item) = {} THEN "General" ELSE restaurant_keywords[Min(NameHits(item))][1]

\* C28: after construction every catalog item is in exactly one list of restaurant_to_items,
\* the list of the first restaurant, in table order, one of whose keywords is a substring of
\* the item's lower-cased name, or the list "General" when there is none; each list holds
\* its items in catalog order and the lists together hold every item of the catalog.
C28_OneClassification ==
    /\ \A m \in 1..Len(menu_items) : DictHas(restaurant_to_items, Classification(menu_items[m]))
    /\ \A e, f \in 1..Len(restaurant_to_items) : restaurant_to_items[e][1] = restaurant_to_items[f][1] => e = f
    /\ \A e \in 1..Len(restaurant_to_items) :
           /\ restaurant_to_items[e][2] # <<>>
           /\ restaurant_to_items[e][2] =
                  SelectSeq(menu_items, LAMBDA item : Classification(item) = restaurant_to_items[e][1])

\* a parser constructed with a catalog that has an item whose name holds keywords of two
\* restaurants, a list of two items and the list General
C28_Witness ==
    /\ \E m \in 1..Len(menu_items) : Cardinality(NameHits(menu_items[m])) >= 2
    /\ \E e \in 1..Len(restaurant_to_items) :
           restaurant_to_items[e][1] # "General" /\ Len(restaurant_to_items[e][2]) >= 2
    /\ DictHas(restaurant_to_items, "General")
    /\ \E c \in Calls : calls[c].pc = "counted"


\* the last position of the catalog that holds the item
LastPosition(item) == Max({i \in 1..Len(menu_items) : menu_items[i] = item})

\* the positions of the catalog whose item has the keyword, ignoring case
Sharers(keyword) ==
    {i \in 1..Len(menu_items) :
        \E k \in 1..Len(menu_items[i].keywords) : Lower(menu_items[i].keywords[k]) = Lower(keyword)}

\* no item later in the catalog than the item has the keyword
Unshared(item, keyword) == \A i \in Sharers(keyword) : i <= LastPosition(item)

\* C29: with the catalog as constructed, the keyword index maps every keyword to the last
\* item of the catalog that has it, and so does the search of a call: a matched item has a
\* keyword in the text that no later item shares, and the keyword that gives a line its
\* quantity or its size is one that no later item of the catalog shares.
C29_LastItemWins ==
    catalog_changes = 0 =>
        /\ \A e \in 1..Len(keyword_to_item) :
               keyword_to_item[e][2] = menu_items[Max(Sharers(keyword_to_item[e][1]))]
        /\ \A c \in Calls :
               (calls[c].pc = "return" /\ calls[c].raised = None) =>
                   \A i \in 1..Len(calls[c].found_items) :
                       LET item == calls[c].found_items[i][1]
                           counted == BoundKeywords(item, calls[c].quantities)
                           sized == {k \in 1..Len(item.keywords) : DictHas(calls[c].sizes, item.keywords[k])}
                       IN  /\ \E k \in 1..Len(item.keywords) :
                                  /\ Unshared(item, item.keywords[k])
                                  /\ \/ Contains(Lower(item.keywords[k]), calls[c].clean_text)
                                     \/ \E w \in 1..Len(Split(calls[c].clean_text)) :
                                            Partial(Split(calls[c].clean_text)[w], Lower(item.keywords[k]))
                           /\ counted # {} => Unshared(item, item.keywords[Min(counted)])
                           /\ sized # {} => Unshared(item, item.keywords[Min(sized)])


\* the positions of the log that are request attempts
Attempts(log) == {p \in 1..Len(log) : log[p].event = "post"}

\* the attempt was answered with status 200
Answered200(entry) == entry.event = "post" /\ entry.outcome.kind = "response" /\ entry.outcome.status_code = 200

\* the attempt was answered with status 200 and a JSON object whose 'response' is absent or a string
AnsweredText(entry) ==
    /\ Answered200(entry)
    /\ entry.outcome.body.json
    /\ \A k \in 1..Len(entry.outcome.body.value) :
           entry.outcome.body.value[k][1] = "response" => entry.outcome.body.value[k][2] # Nothing

\* the text of the answer, without the white space around it
AnswerText(entry) ==
    LET fields == {k \in 1..Len(entry.outcome.body.value) : entry.outcome.body.value[k][1] = "response"}
    IN  IF fields = {} THEN "" ELSE Strip(entry.outcome.body.value[Max(fields)][2][1])

\* at most max_retries attempts; every wait stands between two attempts, after an attempt
\* that raised, and lasts 2^attempt seconds; a returned call did not end on a wait
BoundedAttemptsAndWaits ==
    LET log == client.log
    IN  /\ Cardinality(Attempts(log)) <= client.config.max_retries
        /\ \A p \in 1..Len(log) :
               log[p].event = "sleep" =>
                   /\ p > 1 /\ log[p - 1].event = "post" /\ Raises(log[p - 1].outcome)
                   /\ log[p].seconds = 2 ^ (Cardinality({q \in Attempts(log) : q < p}) - 1)
                   /\ Cardinality({q \in Attempts(log) : q < p}) < client.config.max_retries
                   /\ client.pc = "returned" => (p < Len(log) /\ log[p + 1].event = "post")
                   /\ p = Len(log) => client.pc \in {"for", "post"}

\* C30 as stated: generate makes at most max_retries attempts, returns the text of the first
\* attempt answered with status 200 and makes no attempt after it, returns None once
\* max_retries attempts have all failed, waits only between attempts, and always returns.
C30_FirstAnswered200 ==
    /\ [](/\ BoundedAttemptsAndWaits
          /\ \A p \in 1..Len(client.log) :
                 Answered200(client.log[p]) =>
                     p = Len(client.log) /\ client.pc = "returned" /\ client.result # Nothing
          /\ (client.pc = "returned" /\ client.result = Nothing) =>
                 Cardinality(Attempts(client.log)) = client.config.max_retries)
    /\ (client.pc = "for" ~> client.pc = "returned")

\* C30: generate makes at most max_retries attempts; it returns the stripped text of the
\* first attempt answered with status 200 and a JSON object whose 'response' is a string or
\* absent, and makes no attempt after it; an attempt answered 200 with another body counts
\* as failed; it returns None once max_retries attempts have all failed; it waits
\* 2^attempt seconds only between attempts; and every call returns.
C30_FirstAnsweredText ==
    /\ [](/\ BoundedAttemptsAndWaits
          /\ \A p \in 1..Len(client.log) :
                 AnsweredText(client.log[p]) =>
                     /\ p = Len(client.log)
                     /\ client.pc = "returned"
                     /\ client.result = Some(AnswerText(client.log[p]))
          /\ client.pc = "returned" =>
                 \/ /\ client.log # <<>>
                    /\ AnsweredText(client.log[Len(client.log)])
                    /\ client.result # Nothing
                 \/ /\ client.result = Nothing
                    /\ Cardinality(Attempts(client.log)) = client.config.max_retries
                    /\ \A p \in Attempts(client.log) : ~AnsweredText(client.log[p]))
    /\ (client.pc = "for" ~> client.pc = "returned")

\* a call returned the text of its third attempt, after two attempts that raised and the
\* waits of one and two seconds
C30_Witness ==
    /\ client.pc = "returned"
    /\ client.result = Some("two fries")
    /\ Len(client.log) = 5
    /\ client.log[2].event = "sleep" /\ client.log[2].seconds = 1
    /\ client.log[4].event = "sleep" /\ client.log[4].seconds = 2
    /\ Answered200(client.log[1]) /\ ~AnsweredText(client.log[1])

====
